---- MODULE Spec2Model ----
(***************************************************************************)
(* A model of Bow (zippoxer/bow): named buckets of typed records stored in *)
(* one ordered key-value engine (Badger).  The engine is modelled by its   *)
(* committed key space `kv`; every handler of db.go, bucket.go and iter.go *)
(* is one action.                                                          *)
(***************************************************************************)
EXTENDS Integers, Sequences, FiniteSets, TLC

(***************************************************************************)
(* Bounds of the model.                                                    *)
(***************************************************************************)
\* Number of distinct bucket names the callers use.
NumNames == 2
\* Number of Put/PutBytes/Delete calls in one run.
MaxWrites == 2
\* Number of times the database is opened in one run.
MaxOpens == 2
\* Payloads (the non-key fields of a record) range over 1..MaxData.
MaxData == 2
\* Bucket ids drawn beyond the last one that fits in one run.
MaxOverdraw == 2
\* Fields of a struct type given to the record mapper.
MaxFields == 2
\* Struct types the record mapper's cache holds in one run.
MaxCached == 2
\* Engine faults injected in one run.
MaxFaults == 1
\* Iterators created in one run.
MaxIters == 1
\* Goroutines that call DB.Bucket concurrently.
NumGoroutines == 2
\* Calls of DB.Bucket one goroutine makes.
MaxCalls == 2

(***************************************************************************)
(* Program constants (db.go).                                              *)
(***************************************************************************)
version == 1
bucketIdSize == 2
MaxBuckets == 63487
reserved == 0
\* 8 * 256, the offset createBucket adds to the drawn counter value.
reservedOffset == 2048
\* Bandwidth of the bucket id sequence (GetSequence(bucketIdSequence, 1e3)).
bandwidth == 1000
bucketIdSequence == <<reserved, 0>>
metaKey == <<reserved, 1>>

Names == 1..NumNames
Goroutines == 1..NumGoroutines
Data == 1..MaxData

ErrNotFound == "ErrNotFound"
ErrReadOnly == "ErrReadOnly"
ErrInvalidKeyType == "is not a valid key type"
ErrBinaryRead == "binary.Read: invalid type"
ErrUnexpectedEOF == "unexpected EOF"
ErrEngine == "engine error"
ErrMaxBuckets == "reached maximum amount of buckets limit"
NilDeref == "panic: nil pointer dereference"
nil == "nil"

(***************************************************************************)
(* Byte strings and their order (the engine orders keys bytewise).         *)
(***************************************************************************)
RECURSIVE LexLess(_, _)
LexLess(a, b) ==
    IF a = <<>> THEN b # <<>>
    ELSE IF b = <<>> THEN FALSE
    ELSE IF Head(a) # Head(b) THEN Head(a) < Head(b)
    ELSE LexLess(Tail(a), Tail(b))

HasPrefix(s, p) == Len(p) <= Len(s) /\ SubSeq(s, 1, Len(p)) = p

\* binary.BigEndian, two's complement, w bytes of the integer n.
BigEndian(n, w) ==
    [i \in 1..w |->
        LET p == w - i
        IN  IF p >= 4 THEN (IF n < 0 THEN 255 ELSE 0)
            ELSE (n \div (256 ^ p)) % 256]

\* The value binary.Read stores for w big-endian bytes (unsigned kinds).
FromBigEndian(b) ==
    LET RECURSIVE go(_, _)
        go(i, acc) == IF i > Len(b) THEN acc ELSE go(i + 1, acc * 256 + b[i])
    IN go(1, 0)

\* bytes.NewBuffer(make([]byte, 8)): the buffer starts with eight zero bytes
\* as its contents, and binary.Write appends to them.
NewBuffer8 == <<0, 0, 0, 0, 0, 0, 0, 0>>

(***************************************************************************)
(* Key Codec (codec/key/key.go).  A key value is [kind, v]: kind is the Go *)
(* type of the key, v its value: the bytes of a string, []byte or Id, and  *)
(* the one-element sequence <<n>> for the integer n.                       *)
(***************************************************************************)
VerbatimKinds == {"string", "bytes", "Id"}
UnsignedKinds == {"uint16", "uint32", "uint64"}
SignedKinds == {"int8", "int16", "int32", "int64"}
FixedKinds == UnsignedKinds \cup SignedKinds
PlatformKinds == {"int", "uint"}
\* Pointers to and slices of the integer kinds: one unsigned and one signed
\* fixed-width kind of each, and the platform kinds.
FixedPointerKinds == {"*uint16", "*int16"}
FixedSliceKinds == {"[]uint16", "[]int16"}
PlatformPointerKinds == {"*int", "*uint"}
PlatformSliceKinds == {"[]int", "[]uint"}
\* Types the codec has no case for.
OtherKinds == {"float64", "bool"}
KeyKinds ==
    VerbatimKinds \cup {"byte"} \cup FixedKinds \cup PlatformKinds
      \cup FixedPointerKinds \cup FixedSliceKinds
      \cup PlatformPointerKinds \cup PlatformSliceKinds

\* The element type of a pointer or slice kind.
ElemOf(kind) ==
    CASE kind \in {"*uint16", "[]uint16"} -> "uint16"
      [] kind \in {"*int16", "[]int16"} -> "int16"
      [] kind \in {"*int", "[]int"} -> "int"
      [] kind \in {"*uint", "[]uint"} -> "uint"
      [] OTHER -> kind

\* Size in bytes binary.Write and binary.Read use for an integer kind.
Width(kind) ==
    CASE kind = "int8" -> 1
      [] kind \in {"uint16", "int16"} -> 2
      [] kind \in {"uint32", "int32"} -> 4
      [] OTHER -> 8

\* make([]byte, n): n zero bytes.
Zeros(n) == [i \in 1..n |-> 0]

\* binary.Write of the integers of v, w bytes each.
RECURSIVE WriteAll(_, _)
WriteAll(v, w) ==
    IF v = <<>> THEN <<>> ELSE BigEndian(Head(v), w) \o WriteAll(Tail(v), w)

\* The value binary.Read stores for the big-endian bytes b of a signed kind.
FromBigEndianSigned(b) ==
    IF b[1] >= 128 THEN -FromBigEndian([i \in DOMAIN b |-> 255 - b[i]]) - 1
    ELSE FromBigEndian(b)

\* binary.Read of n integers of the kind from the front of data.
ReadAll(data, kind, n) ==
    [i \in 1..n |->
        LET chunk == SubSeq(data, (i - 1) * Width(kind) + 1, i * Width(kind))
        IN  IF kind \in SignedKinds THEN FromBigEndianSigned(chunk)
            ELSE FromBigEndian(chunk)]

\* Codec.Marshal: [err, b].
Marshal(k) ==
    CASE k.kind \in VerbatimKinds -> [err |-> nil, b |-> k.v]
      [] k.kind = "byte" -> [err |-> nil, b |-> <<k.v[1]>>]
      [] k.kind \in FixedKinds ->
            [err |-> nil, b |-> NewBuffer8 \o BigEndian(k.v[1], Width(k.kind))]
      [] k.kind \in FixedPointerKinds \cup FixedSliceKinds ->
            [err |-> nil, b |-> NewBuffer8 \o WriteAll(k.v, Width(ElemOf(k.kind)))]
      [] k.kind \in PlatformKinds \cup PlatformPointerKinds ->
            \* case int: return c.Marshal(int64(k), in)
            [err |-> nil, b |-> NewBuffer8 \o BigEndian(k.v[1], 8)]
      [] k.kind \in PlatformSliceKinds ->
            \* bytes.NewBuffer(make([]byte, len(k)*8)), then one Write each
            [err |-> nil, b |-> Zeros(Len(k.v) * 8) \o WriteAll(k.v, 8)]
      [] OTHER -> [err |-> ErrInvalidKeyType, b |-> <<>>]

\* Codec.Unmarshal(data, &field): [err, v], kind the type of the field and v
\* the field's value afterwards (old is its value before).
Unmarshal(data, kind, old) ==
    IF Len(data) = 0 THEN [err |-> nil, v |-> old]
    ELSE CASE kind \in VerbatimKinds -> [err |-> nil, v |-> data]
           [] kind = "byte" -> [err |-> nil, v |-> <<data[1]>>]
           [] kind \in FixedKinds ->
                \* binary.Read reads the first Width(kind) bytes of data.
                IF Len(data) < Width(kind)
                THEN [err |-> ErrUnexpectedEOF, v |-> old]
                ELSE [err |-> nil, v |-> ReadAll(data, kind, 1)]
           [] kind \in FixedSliceKinds ->
                \* binary.Read fills the elements the slice already has.
                IF Len(data) < Len(old) * Width(ElemOf(kind))
                THEN [err |-> ErrUnexpectedEOF, v |-> old]
                ELSE [err |-> nil, v |-> ReadAll(data, ElemOf(kind), Len(old))]
           [] kind \in PlatformKinds \cup PlatformSliceKinds ->
                \* binary.Read has no fixed size for *int / *uint.
                [err |-> ErrBinaryRead, v |-> old]
           [] OTHER ->
                \* default, reached also by a pointer-typed field (**T)
                [err |-> ErrInvalidKeyType, v |-> old]

\* The record type that has no key field (keyIndex returns -1).
NoKeyField == "none"

\* The zero value of a key field of the given kind.
ZeroKey(kind) ==
    IF kind \in VerbatimKinds \cup FixedSliceKinds \cup PlatformSliceKinds \cup {NoKeyField}
    THEN <<>> ELSE <<0>>

(***************************************************************************)
(* Records.  A record is [kind, key, data]: kind is the Go type of its key *)
(* field, key the key field's value, data the other fields.                *)
(***************************************************************************)
StringKeys == {<<>>, <<1>>, <<1, 2>>, <<2>>}
Uint16Keys == {<<1>>}
IntKeys == {<<1>>}

Keys ==
    [kind : {"string"}, v : StringKeys]
      \cup [kind : {"uint16"}, v : Uint16Keys]
      \cup [kind : {"int"}, v : IntKeys]

Records == {[kind |-> k.kind, key |-> k.v, data |-> d] : k \in Keys, d \in Data}

PrefixKeys == {[kind |-> "string", v |-> <<1>>], [kind |-> "int", v |-> <<1>>]}
RecordKinds == {k.kind : k \in Keys}

\* The key of a record as a key value.
KeyOfRecord(r) == [kind |-> r.kind, v |-> r.key]

\* The zero value of a record type.
ZeroRecord(kind) == [kind |-> kind, key |-> ZeroKey(kind), data |-> 0]

\* structValue.key: the encoded key field of a record (nil, nil when the
\* record type has no key field).
key(rec) ==
    IF rec.kind = NoKeyField THEN [err |-> nil, b |-> <<>>]
    ELSE Marshal([kind |-> rec.kind, v |-> rec.key])

\* structValue.setKey: decode key bytes into the key field; [err, rec].
setKey(rec, keyBytes) ==
    LET u == Unmarshal(keyBytes, rec.kind, rec.key)
    IN  IF rec.kind = NoKeyField THEN [err |-> nil, rec |-> rec]
        ELSE [err |-> u.err, rec |-> [rec EXCEPT !.key = u.v]]

\* Value codec (codec/json): the whole record, key field included.
codecMarshal(rec) == [t |-> "rec", kind |-> rec.kind, key |-> rec.key, data |-> rec.data]

\* codec.Unmarshal(value, &result): [err, rec].  A document decodes into a
\* struct whose key field takes the JSON type of the stored key (a string,
\* or a number for the integer kinds; none when the type has no key field).
\* On a mismatch json.Unmarshal skips
\* the key field, fills the others and returns an UnmarshalTypeError; a
\* value that is not a record document fills nothing.
ErrJSON == "json: cannot unmarshal"
JSONNumber(kind) == kind \in FixedKinds \cup PlatformKinds
codecUnmarshal(value, result) ==
    IF value.t # "rec" THEN [err |-> ErrJSON, rec |-> result]
    ELSE IF NoKeyField \in {value.kind, result.kind}
    THEN \* no key in the document, or no field to take it
         [err |-> nil, rec |-> [result EXCEPT !.data = value.data]]
    ELSE IF JSONNumber(value.kind) = JSONNumber(result.kind)
    THEN [err |-> nil,
          rec |-> [kind |-> result.kind, key |-> value.key, data |-> value.data]]
    ELSE [err |-> ErrJSON, rec |-> [result EXCEPT !.data = value.data]]

(***************************************************************************)
(* State.                                                                  *)
(***************************************************************************)
VARIABLES
    dirExists,  \* the directory holds an engine's files
    kv,         \* the engine's committed key space: key bytes -> value
    engineOpen, \* a badger.DB handle is open on the directory
    db,         \* the *DB returned by Open: open, readOnly, meta, bucketId
    handles,    \* per bucket name, the *Bucket the caller got from db.Bucket
    iter,       \* the caller's *Iter
    results,    \* the records the caller's Next loop has received so far
    ret,        \* the last call: its operation, arguments and what it returned
    keygen,     \* number of Ids the key generator has produced
    calls,      \* per goroutine, its concurrent call of db.Bucket
    structCache, \* the process-wide cache of keyIndex: struct type -> field index
    metaMu,     \* db.metaMu: its writer, its readers, and the blocked Lock calls
    nWrites, nOpens, nFaults, nIters

vars == <<dirExists, kv, engineOpen, db, handles, iter, results, ret, keygen,
          calls, structCache, metaMu, nWrites, nOpens, nFaults, nIters>>

EmptyMap == [x \in {} |-> 0]

kvSet(m, k, v) == [x \in DOMAIN m \cup {k} |-> IF x = k THEN v ELSE m[x]]
kvDelete(m, k) == [x \in DOMAIN m \ {k} |-> m[x]]

\* type meta struct { Version uint32; Buckets map[string]bucketMeta }
NewMeta == [Version |-> version, Buckets |-> EmptyMap]
MetaDoc(m) == [t |-> "meta", Version |-> m.Version, Buckets |-> m.Buckets]

\* The DB struct before Open / after Close.
NoDB == [open |-> FALSE, readOnly |-> FALSE, meta |-> NewMeta,
         hasSeq |-> FALSE, next |-> 0, leased |-> 0]

\* A *Bucket: db is whether its db pointer is set.
NoHandle == [held |-> FALSE, db |-> FALSE, id |-> <<0, 0>>, err |-> nil]
OkBucket(id) == [held |-> TRUE, db |-> TRUE, id |-> id, err |-> nil]
\* &Bucket{err: err}: the db pointer stays nil.
ErrBucket(err) == [held |-> TRUE, db |-> FALSE, id |-> <<0, 0>>, err |-> err]

NoIter == [made |-> FALSE]

\* metaMu sync.RWMutex, unlocked: no writer (0), no reader, no goroutine
\* blocked in Lock.
Unlocked == [writer |-> 0, readers |-> {}, waiting |-> {}]

\* A goroutine's call of db.Bucket: where it is (idle: no call made yet,
\* create: the lookup missed and createBucket is next, done: it returned),
\* the name it passed, whether its lookup missed, the *Bucket it got, and
\* the number of calls it has made.
NoCall == [pc |-> "idle", name |-> 0, missed |-> FALSE, bucket |-> NoHandle, n |-> 0]

Faults == {"none", "set", "commit", "lease", "release"}

\* A location (the directory Open is given): whether it holds an engine's
\* files, and the committed key space in them.
FreshLocation == [dir |-> FALSE, kv |-> EmptyMap]

\* The state before the first Open at the location loc: no handles.  w, o, f
\* and i are how much of the write, open, fault and iterator budgets is
\* already spent.
InitAt(loc, w, o, f, i) ==
    /\ dirExists = loc.dir
    /\ kv = loc.kv
    /\ engineOpen = FALSE
    /\ db = NoDB
    /\ handles = [n \in Names |-> NoHandle]
    /\ iter = NoIter
    /\ results = <<>>
    /\ ret = [op |-> "none"]
    /\ keygen = 0
    /\ calls = [g \in Goroutines |-> NoCall]
    /\ structCache = EmptyMap
    /\ metaMu = Unlocked
    /\ nWrites = w
    /\ nOpens = o
    /\ nFaults = f
    /\ nIters = i

\* The state before the first Open of a location that does not exist yet.
InitWith(w, o, f, i) == InitAt(FreshLocation, w, o, f, i)

FaultOK(f) == f = "none" \/ nFaults < MaxFaults
CountFault(f) == nFaults' = IF f = "none" THEN nFaults ELSE nFaults + 1

(***************************************************************************)
(* The engine's sequence (badger.Sequence) behind db.bucketId.             *)
(***************************************************************************)
\* The counter value stored under bucketIdSequence (0 when absent).
StoredSeq(m) == IF bucketIdSequence \in DOMAIN m THEN m[bucketIdSequence].n ELSE 0
SeqDoc(n) == [t |-> "seq", n |-> n]

\* A lease that starts at zero whatever counter value is stored.
updateLeaseFromZero(m) ==
    [next |-> 0, leased |-> bandwidth,
     kv |-> kvSet(m, bucketIdSequence, SeqDoc(bandwidth))]

\* Sequence.updateLease: lease bandwidth values starting at the stored one.
updateLease(m) ==
    [next |-> StoredSeq(m), leased |-> StoredSeq(m) + bandwidth,
     kv |-> kvSet(m, bucketIdSequence, SeqDoc(StoredSeq(m) + bandwidth))]

\* Sequence.Release: hand back the unused part of the lease.
Release(m, next, leased) ==
    IF StoredSeq(m) = leased THEN kvSet(m, bucketIdSequence, SeqDoc(next)) ELSE m

(***************************************************************************)
(* db.go: writeMeta, Open, Close, Bucket.                                  *)
(***************************************************************************)
\* DB.writeMeta(nil): [err, kv].  The deferred err = txn.Commit() replaces
\* whatever Marshal or Set returned; a failed Set leaves the transaction
\* empty, and committing an empty transaction succeeds.
writeMeta(m, meta, fault) ==
    CASE fault = "set"    -> [err |-> nil, kv |-> m]
      [] fault = "commit" -> [err |-> ErrEngine, kv |-> m]
      [] OTHER            -> [err |-> nil, kv |-> kvSet(m, metaKey, MetaDoc(meta))]

\* DB.readMeta(nil): [found, meta].
readMeta(m) ==
    IF metaKey \in DOMAIN m
    THEN [found |-> TRUE,
          meta |-> [Version |-> m[metaKey].Version, Buckets |-> m[metaKey].Buckets]]
    ELSE [found |-> FALSE, meta |-> NewMeta]

Open(readOnly, fault) ==
    /\ ~db.open
    /\ nOpens < MaxOpens
    /\ FaultOK(fault)
    /\ fault \in {"none", "set", "commit", "lease"}
    /\ nOpens' = nOpens + 1
    /\ CountFault(fault)
    /\ UNCHANGED <<metaMu, structCache, calls, handles, iter, results, keygen, nWrites, nIters>>
    /\ IF engineOpen \/ (readOnly /\ ~dirExists)
       THEN \* badger.Open fails: the directory is locked by a handle that
            \* was never closed, or a read-only open finds no directory.
            /\ fault = "none"
            /\ ret' = [op |-> "Open", readOnly |-> readOnly, err |-> ErrEngine]
            /\ UNCHANGED <<dirExists, kv, engineOpen, db>>
       ELSE LET rm == readMeta(kv)
                bootstrap == ~rm.found /\ ~readOnly
                wm == IF bootstrap THEN writeMeta(kv, rm.meta, fault)
                      ELSE [err |-> nil, kv |-> kv]
                ul == updateLease(wm.kv)
            IN  /\ fault \in {"set", "commit"} => bootstrap
                /\ fault = "lease" => ~readOnly
                /\ dirExists' = TRUE
                /\ engineOpen' = TRUE
                /\ IF wm.err # nil \/ fault = "lease"
                   THEN \* return nil, err: the badger handle stays open.
                        /\ kv' = wm.kv
                        /\ db' = NoDB
                        /\ ret' = [op |-> "Open", readOnly |-> readOnly, err |-> ErrEngine]
                   ELSE /\ kv' = IF readOnly THEN wm.kv ELSE ul.kv
                        /\ db' = [open |-> TRUE, readOnly |-> readOnly, meta |-> rm.meta,
                                  hasSeq |-> ~readOnly,
                                  next |-> IF readOnly THEN 0 ELSE ul.next,
                                  leased |-> IF readOnly THEN 0 ELSE ul.leased]
                        /\ ret' = [op |-> "Open", readOnly |-> readOnly, err |-> nil]

Close(fault) ==
    /\ db.open
    /\ FaultOK(fault)
    /\ fault \in {"none", "release"}
    /\ fault = "release" => db.hasSeq
    /\ CountFault(fault)
    /\ UNCHANGED <<metaMu, structCache, calls, dirExists, results, keygen, nWrites, nOpens, nIters>>
    /\ IF fault = "release"
       THEN \* return err: db.db.Close() is not reached.
            /\ ret' = [op |-> "Close", err |-> ErrEngine]
            /\ UNCHANGED <<kv, engineOpen, db, handles, iter>>
       ELSE /\ kv' = IF db.hasSeq THEN Release(kv, db.next, db.leased) ELSE kv
            /\ engineOpen' = FALSE
            /\ db' = NoDB
            /\ handles' = [n \in Names |-> NoHandle]
            /\ iter' = NoIter
            /\ ret' = [op |-> "Close", err |-> nil]

\* The last counter value whose bucket id is within MaxBuckets.
LastCounter == MaxBuckets - reservedOffset

\* The sequence may still be drawn from in this run.
DrawOK == db.next <= LastCounter + MaxOverdraw

\* A bucket id taken from the high byte of the drawn value only.
BucketIdOfHighByte(nextId) == BigEndian(nextId \div 256, bucketIdSize)

\* bucketId of a drawn counter value: binary.BigEndian.PutUint16(id[:], uint16(nextId)).
BucketIdOf(nextId) == BigEndian(nextId % 65536, bucketIdSize)

\* DB.createBucket without the second lookup under the write lock.
createBucketNoRecheck(name, fault) ==
    LET renew == db.next >= db.leased
        ul == updateLease(kv)
        drawn == IF renew THEN ul.next ELSE db.next
        kv1 == IF renew THEN ul.kv ELSE kv
        db1 == [db EXCEPT !.next = drawn + 1,
                          !.leased = IF renew THEN ul.leased ELSE db.leased]
        nextId == drawn + reservedOffset
        id == BucketIdOf(nextId)
        db2 == [db1 EXCEPT !.meta.Buckets = kvSet(db.meta.Buckets, name, id)]
        wm == writeMeta(kv1, db2.meta, fault)
        drawIO == IF renew THEN <<"Sequence.Next", "Sequence.updateLease">>
                  ELSE <<"Sequence.Next">>
    IN  IF renew /\ fault = "lease"
        THEN [bucket |-> ErrBucket(ErrEngine), db |-> db, kv |-> kv, io |-> drawIO]
        ELSE IF nextId > MaxBuckets
        THEN [bucket |-> ErrBucket(ErrMaxBuckets), db |-> db1, kv |-> kv1, io |-> drawIO]
        ELSE IF wm.err # nil
        THEN [bucket |-> ErrBucket(wm.err), db |-> db2, kv |-> wm.kv,
              io |-> drawIO \o <<"writeMeta">>]
        ELSE [bucket |-> OkBucket(id), db |-> db2, kv |-> wm.kv,
              io |-> drawIO \o <<"writeMeta">>]

\* DB.createBucket without the MaxBuckets test.
createBucketNoLimit(name, fault) ==
    LET renew == db.next >= db.leased
        ul == updateLease(kv)
        drawn == IF renew THEN ul.next ELSE db.next
        kv1 == IF renew THEN ul.kv ELSE kv
        db1 == [db EXCEPT !.next = drawn + 1,
                          !.leased = IF renew THEN ul.leased ELSE db.leased]
        nextId == drawn + reservedOffset
        id == BucketIdOf(nextId)
        db2 == [db1 EXCEPT !.meta.Buckets = kvSet(db.meta.Buckets, name, id)]
        wm == writeMeta(kv1, db2.meta, fault)
        drawIO == IF renew THEN <<"Sequence.Next", "Sequence.updateLease">>
                  ELSE <<"Sequence.Next">>
    IN  IF name \in DOMAIN db.meta.Buckets
        THEN [bucket |-> OkBucket(db.meta.Buckets[name]), db |-> db, kv |-> kv,
              io |-> <<>>]
        ELSE IF renew /\ fault = "lease"
        THEN [bucket |-> ErrBucket(ErrEngine), db |-> db, kv |-> kv, io |-> drawIO]
        ELSE IF wm.err # nil
        THEN [bucket |-> ErrBucket(wm.err), db |-> db2, kv |-> wm.kv,
              io |-> drawIO \o <<"writeMeta">>]
        ELSE [bucket |-> OkBucket(id), db |-> db2, kv |-> wm.kv,
              io |-> drawIO \o <<"writeMeta">>]

\* DB.createBucket that registers the name before the MaxBuckets test.
createBucketRegistersFirst(name, fault) ==
    LET renew == db.next >= db.leased
        ul == updateLease(kv)
        drawn == IF renew THEN ul.next ELSE db.next
        kv1 == IF renew THEN ul.kv ELSE kv
        db1 == [db EXCEPT !.next = drawn + 1,
                          !.leased = IF renew THEN ul.leased ELSE db.leased]
        nextId == drawn + reservedOffset
        id == BucketIdOf(nextId)
        db2 == [db1 EXCEPT !.meta.Buckets = kvSet(db.meta.Buckets, name, id)]
        wm == writeMeta(kv1, db2.meta, fault)
        drawIO == IF renew THEN <<"Sequence.Next", "Sequence.updateLease">>
                  ELSE <<"Sequence.Next">>
    IN  IF name \in DOMAIN db.meta.Buckets
        THEN [bucket |-> OkBucket(db.meta.Buckets[name]), db |-> db, kv |-> kv,
              io |-> <<>>]
        ELSE IF renew /\ fault = "lease"
        THEN [bucket |-> ErrBucket(ErrEngine), db |-> db, kv |-> kv, io |-> drawIO]
        ELSE IF nextId > MaxBuckets
        THEN [bucket |-> ErrBucket(ErrMaxBuckets), db |-> db2, kv |-> kv1, io |-> drawIO]
        ELSE IF wm.err # nil
        THEN [bucket |-> ErrBucket(wm.err), db |-> db2, kv |-> wm.kv,
              io |-> drawIO \o <<"writeMeta">>]
        ELSE [bucket |-> OkBucket(id), db |-> db2, kv |-> wm.kv,
              io |-> drawIO \o <<"writeMeta">>]

\* DB.createBucket(nil, name), entered when the lookup missed: [bucket, db,
\* kv, io].  db.metaMu.Lock() is taken on entry and released by the deferred
\* Unlock on return, so io lists, in order, the calls into the engine made
\* while the write lock is held.
createBucket(name, fault) ==
    LET renew == db.next >= db.leased
        ul == updateLease(kv)
        drawn == IF renew THEN ul.next ELSE db.next
        kv1 == IF renew THEN ul.kv ELSE kv
        db1 == [db EXCEPT !.next = drawn + 1,
                          !.leased = IF renew THEN ul.leased ELSE db.leased]
        nextId == drawn + reservedOffset
        id == BucketIdOf(nextId)
        db2 == [db1 EXCEPT !.meta.Buckets = kvSet(db.meta.Buckets, name, id)]
        wm == writeMeta(kv1, db2.meta, fault)
        drawIO == IF renew THEN <<"Sequence.Next", "Sequence.updateLease">>
                  ELSE <<"Sequence.Next">>
    IN  IF name \in DOMAIN db.meta.Buckets
        THEN [bucket |-> OkBucket(db.meta.Buckets[name]), db |-> db, kv |-> kv,
              io |-> <<>>]
        ELSE IF renew /\ fault = "lease"
        THEN [bucket |-> ErrBucket(ErrEngine), db |-> db, kv |-> kv, io |-> drawIO]
        ELSE IF nextId > MaxBuckets
        THEN [bucket |-> ErrBucket(ErrMaxBuckets), db |-> db1, kv |-> kv1, io |-> drawIO]
        ELSE IF wm.err # nil
        THEN [bucket |-> ErrBucket(wm.err), db |-> db2, kv |-> wm.kv,
              io |-> drawIO \o <<"writeMeta">>]
        ELSE [bucket |-> OkBucket(id), db |-> db2, kv |-> wm.kv,
              io |-> drawIO \o <<"writeMeta">>]

\* DB.Bucket without the read-only branch: a miss always goes on to create.
BucketAlwaysCreates(name, fault) ==
    /\ db.open
    /\ FaultOK(fault)
    /\ fault \in {"none", "set", "commit", "lease"}
    /\ CountFault(fault)
    /\ UNCHANGED <<metaMu, structCache, calls, dirExists, engineOpen, iter, results, keygen, nWrites, nOpens, nIters>>
    /\ IF name \in DOMAIN db.meta.Buckets
       THEN /\ fault = "none"
            /\ handles' = [handles EXCEPT ![name] = OkBucket(db.meta.Buckets[name])]
            /\ UNCHANGED <<kv, db>>
       ELSE LET cb == createBucket(name, fault)
            IN  /\ DrawOK
                /\ fault = "lease" => db.next >= db.leased
                /\ handles' = [handles EXCEPT ![name] = cb.bucket]
                /\ kv' = cb.kv
                /\ db' = cb.db
    /\ ret' = [op |-> "Bucket", err |-> handles'[name].err,
               locks |-> IF name \in DOMAIN db.meta.Buckets
                         THEN <<"RLock">> ELSE <<"RLock", "Lock">>,
               io |-> IF name \in DOMAIN db.meta.Buckets
                      THEN <<>> ELSE createBucket(name, fault).io]

\* DB.Bucket without the lookup under the read lock: every call goes to
\* createBucket and takes the write lock.
BucketAlwaysLocks(name, fault) ==
    /\ db.open
    /\ FaultOK(fault)
    /\ fault \in {"none", "set", "commit", "lease"}
    /\ CountFault(fault)
    /\ UNCHANGED <<metaMu, structCache, calls, dirExists, engineOpen, iter, results, keygen, nWrites, nOpens, nIters>>
    /\ IF name \notin DOMAIN db.meta.Buckets /\ db.readOnly
       THEN /\ fault = "none"
            /\ handles' = [handles EXCEPT ![name] = ErrBucket(ErrNotFound)]
            /\ UNCHANGED <<kv, db>>
            /\ ret' = [op |-> "Bucket", err |-> ErrNotFound, locks |-> <<"RLock">>,
                       io |-> <<>>]
       ELSE LET cb == createBucket(name, fault)
            IN  /\ name \notin DOMAIN db.meta.Buckets => DrawOK
                /\ fault # "none" => name \notin DOMAIN db.meta.Buckets
                /\ fault = "lease" => db.next >= db.leased
                /\ handles' = [handles EXCEPT ![name] = cb.bucket]
                /\ kv' = cb.kv
                /\ db' = cb.db
                /\ ret' = [op |-> "Bucket", err |-> cb.bucket.err, locks |-> <<"Lock">>,
                           io |-> cb.io]

\* DB.Bucket(name).  ret.locks lists the acquisitions of db.metaMu the call
\* made, ret.io the engine calls it made while holding the write lock.
Bucket(name, fault) ==
    /\ db.open
    /\ FaultOK(fault)
    /\ fault \in {"none", "set", "commit", "lease"}
    /\ CountFault(fault)
    /\ UNCHANGED <<metaMu, structCache, calls, dirExists, engineOpen, iter, results, keygen, nWrites, nOpens, nIters>>
    /\ IF name \in DOMAIN db.meta.Buckets
       THEN \* DB.bucket hit.
            /\ fault = "none"
            /\ handles' = [handles EXCEPT ![name] = OkBucket(db.meta.Buckets[name])]
            /\ UNCHANGED <<kv, db>>
       ELSE IF db.readOnly
       THEN /\ fault = "none"
            /\ handles' = [handles EXCEPT ![name] = ErrBucket(ErrNotFound)]
            /\ UNCHANGED <<kv, db>>
       ELSE LET cb == createBucket(name, fault)
            IN  /\ DrawOK
                /\ fault = "lease" => db.next >= db.leased
                /\ handles' = [handles EXCEPT ![name] = cb.bucket]
                /\ kv' = cb.kv
                /\ db' = cb.db
    /\ ret' = [op |-> "Bucket", err |-> handles'[name].err,
               locks |-> IF name \in DOMAIN db.meta.Buckets \/ db.readOnly
                         THEN <<"RLock">> ELSE <<"RLock", "Lock">>,
               io |-> IF name \in DOMAIN db.meta.Buckets \/ db.readOnly
                      THEN <<>> ELSE createBucket(name, fault).io]

\* DB.Buckets().
Buckets ==
    /\ db.open
    /\ ret' = [op |-> "Buckets", names |-> DOMAIN db.meta.Buckets]
    /\ UNCHANGED <<metaMu, structCache, calls, dirExists, kv, engineOpen, db, handles, iter, results, keygen,
                   nWrites, nOpens, nFaults, nIters>>

(***************************************************************************)
(* DB.Bucket called from several goroutines.  db.metaMu makes two steps of *)
(* one call: the lookup of DB.bucket under the read lock, and, after a     *)
(* miss on a writable database, the whole of createBucket under the write  *)
(* lock.  Between the two the lock is free and other goroutines may run.   *)
(***************************************************************************)
\* DB.Bucket up to the end of the lookup: db.bucket(name), and the
\* read-only branch.
BucketLookup(g, name) ==
    /\ db.open
    /\ calls[g].pc # "create"
    /\ calls[g].n < MaxCalls
    /\ LET c == [calls[g] EXCEPT !.name = name, !.n = @ + 1]
       IN  calls' = [calls EXCEPT ![g] =
              IF name \in DOMAIN db.meta.Buckets
              THEN [c EXCEPT !.pc = "done", !.missed = FALSE,
                             !.bucket = OkBucket(db.meta.Buckets[name])]
              ELSE IF db.readOnly
              THEN [c EXCEPT !.pc = "done", !.missed = TRUE,
                             !.bucket = ErrBucket(ErrNotFound)]
              ELSE [c EXCEPT !.pc = "create", !.missed = TRUE, !.bucket = NoHandle]]
    /\ ret' = [op |-> "BucketLookup", locks |-> <<"RLock">>, io |-> <<>>]
    /\ UNCHANGED <<metaMu, structCache, dirExists, kv, engineOpen, db, handles, iter, results, keygen,
                   nWrites, nOpens, nFaults, nIters>>

\* The rest of DB.Bucket after a miss: db.createBucket(nil, name).
BucketCreate(g, fault) ==
    /\ db.open
    /\ calls[g].pc = "create"
    /\ FaultOK(fault)
    /\ fault \in {"none", "set", "commit", "lease"}
    /\ CountFault(fault)
    /\ LET cb == createBucket(calls[g].name, fault)
       IN  /\ fault # "none" => calls[g].name \notin DOMAIN db.meta.Buckets
           /\ fault = "lease" => db.next >= db.leased
           /\ calls[g].name \notin DOMAIN db.meta.Buckets => DrawOK
           /\ calls' = [calls EXCEPT ![g] = [@ EXCEPT !.pc = "done", !.bucket = cb.bucket]]
           /\ kv' = cb.kv
           /\ db' = cb.db
    /\ ret' = [op |-> "BucketCreate", err |-> calls'[g].bucket.err,
               locks |-> <<"Lock">>, io |-> createBucket(calls[g].name, fault).io]
    /\ UNCHANGED <<metaMu, structCache, dirExists, engineOpen, handles, iter, results, keygen, nWrites,
                   nOpens, nIters>>

(***************************************************************************)
(* bucket.go: Put, PutBytes, Get, GetBytes, Delete on a *Bucket h.         *)
(***************************************************************************)
\* NewId(): the next 8-byte Id of the key generator.
NewId == BigEndian(keygen + 1, 8)

\* Bucket.internalKey: key prefixed with the bucket's id.
internalKey(id, k) == id \o k

BytesKey(b) == [kind |-> "bytes", v |-> b]

\* Bucket.PutBytes that keeps the stored value when the key already exists.
putBytesInsertOnly(m, h, k, data) ==
    LET mk == Marshal(k)
        auto == Len(mk.b) = 0
        ik == IF auto THEN internalKey(h.id, NewId) ELSE internalKey(h.id, mk.b)
        same == [err |-> nil, kv |-> m, keygen |-> keygen]
    IN  IF ~h.db THEN [same EXCEPT !.err = NilDeref]
        ELSE IF db.readOnly THEN [same EXCEPT !.err = ErrReadOnly]
        ELSE IF h.err # nil THEN [same EXCEPT !.err = h.err]
        ELSE IF mk.err # nil THEN [same EXCEPT !.err = mk.err]
        ELSE IF ik \in DOMAIN m THEN same
        ELSE [err |-> nil, kv |-> kvSet(m, ik, data),
              keygen |-> IF auto THEN keygen + 1 ELSE keygen]

\* Bucket.PutBytes(key, data): [err, kv, keygen].
putBytes(m, h, k, data) ==
    LET mk == Marshal(k)
        auto == Len(mk.b) = 0
        ik == IF auto THEN internalKey(h.id, NewId) ELSE internalKey(h.id, mk.b)
        same == [err |-> nil, kv |-> m, keygen |-> keygen]
    IN  IF ~h.db THEN [same EXCEPT !.err = NilDeref]
        ELSE IF db.readOnly THEN [same EXCEPT !.err = ErrReadOnly]
        ELSE IF h.err # nil THEN [same EXCEPT !.err = h.err]
        ELSE IF mk.err # nil THEN [same EXCEPT !.err = mk.err]
        ELSE [err |-> nil, kv |-> kvSet(m, ik, data),
              keygen |-> IF auto THEN keygen + 1 ELSE keygen]

\* Bucket.Put(v): [err, kv, keygen].
put(m, h, rec) ==
    LET kb == key(rec)
        same == [err |-> nil, kv |-> m, keygen |-> keygen]
    IN  IF ~h.db THEN [same EXCEPT !.err = NilDeref]
        ELSE IF db.readOnly THEN [same EXCEPT !.err = ErrReadOnly]
        ELSE IF h.err # nil THEN [same EXCEPT !.err = h.err]
        ELSE IF kb.err # nil THEN [same EXCEPT !.err = kb.err]
        ELSE putBytes(m, h, BytesKey(kb.b), codecMarshal(rec))

\* Bucket.Get with the key injected after the value is decoded instead of
\* before it.
getInjectsKeyLast(m, h, k, out) ==
    LET mk == Marshal(k)
        ik == internalKey(h.id, mk.b)
    IN  IF h.err # nil THEN [err |-> h.err, out |-> out]
        ELSE IF mk.err # nil THEN [err |-> mk.err, out |-> out]
        ELSE IF ik \notin DOMAIN m THEN [err |-> ErrNotFound, out |-> setKey(out, mk.b).rec]
        ELSE LET d == codecUnmarshal(m[ik], out)
             IN  [err |-> d.err, out |-> setKey(d.rec, mk.b).rec]

\* Bucket.Get(key, v): [err, out]; out is the caller's struct afterwards.
get(m, h, k, out) ==
    LET mk == Marshal(k)
        ik == internalKey(h.id, mk.b)
        out1 == setKey(out, mk.b).rec
    IN  IF h.err # nil THEN [err |-> h.err, out |-> out]
        ELSE IF mk.err # nil THEN [err |-> mk.err, out |-> out]
        ELSE IF ik \notin DOMAIN m THEN [err |-> ErrNotFound, out |-> out1]
        ELSE LET d == codecUnmarshal(m[ik], out1)
             IN  [err |-> d.err, out |-> d.rec]

\* Bucket.GetBytes(key, in): [err, found, out].
getBytes(m, h, k) ==
    LET mk == Marshal(k)
        ik == internalKey(h.id, mk.b)
        none == [err |-> nil, found |-> FALSE, out |-> [t |-> "nil"]]
    IN  IF h.err # nil THEN [none EXCEPT !.err = h.err]
        ELSE IF mk.err # nil THEN [none EXCEPT !.err = mk.err]
        ELSE IF ik \notin DOMAIN m THEN [none EXCEPT !.err = ErrNotFound]
        ELSE [err |-> nil, found |-> TRUE, out |-> m[ik]]

\* Bucket.Delete that reports a key it does not find.
deleteReportsMissing(m, h, k) ==
    LET mk == Marshal(k)
        ik == internalKey(h.id, mk.b)
    IN  IF ~h.db THEN [err |-> NilDeref, kv |-> m]
        ELSE IF db.readOnly THEN [err |-> ErrReadOnly, kv |-> m]
        ELSE IF h.err # nil THEN [err |-> h.err, kv |-> m]
        ELSE IF mk.err # nil THEN [err |-> mk.err, kv |-> m]
        ELSE IF ik \notin DOMAIN m THEN [err |-> ErrNotFound, kv |-> m]
        ELSE [err |-> nil, kv |-> kvDelete(m, ik)]

\* Bucket.Delete(key): [err, kv].
delete(m, h, k) ==
    LET mk == Marshal(k)
        ik == internalKey(h.id, mk.b)
    IN  IF ~h.db THEN [err |-> NilDeref, kv |-> m]
        ELSE IF db.readOnly THEN [err |-> ErrReadOnly, kv |-> m]
        ELSE IF h.err # nil THEN [err |-> h.err, kv |-> m]
        ELSE IF mk.err # nil THEN [err |-> mk.err, kv |-> m]
        ELSE [err |-> nil, kv |-> kvDelete(m, ik)]

Put(name, rec) ==
    /\ handles[name].held
    /\ nWrites < MaxWrites
    /\ LET r == put(kv, handles[name], rec)
       IN  /\ kv' = r.kv
           /\ keygen' = r.keygen
           /\ ret' = [op |-> "Put", err |-> r.err]
    /\ nWrites' = nWrites + 1
    /\ UNCHANGED <<metaMu, structCache, calls, dirExists, engineOpen, db, handles, iter, results, nOpens,
                   nFaults, nIters>>

PutBytes(name, rec) ==
    /\ handles[name].held
    /\ nWrites < MaxWrites
    /\ LET r == putBytes(kv, handles[name], [kind |-> rec.kind, v |-> rec.key],
                         codecMarshal(rec))
       IN  /\ kv' = r.kv
           /\ keygen' = r.keygen
           /\ ret' = [op |-> "PutBytes", err |-> r.err]
    /\ nWrites' = nWrites + 1
    /\ UNCHANGED <<metaMu, structCache, calls, dirExists, engineOpen, db, handles, iter, results, nOpens,
                   nFaults, nIters>>

Get(name, k) ==
    /\ handles[name].held
    /\ LET r == get(kv, handles[name], k, ZeroRecord(k.kind))
       IN  ret' = [op |-> "Get", err |-> r.err, out |-> r.out]
    /\ UNCHANGED <<metaMu, structCache, calls, dirExists, kv, engineOpen, db, handles, iter, results, keygen,
                   nWrites, nOpens, nFaults, nIters>>

GetBytes(name, k) ==
    /\ handles[name].held
    /\ LET r == getBytes(kv, handles[name], k)
       IN  ret' = [op |-> "GetBytes", err |-> r.err,
                   found |-> r.found, out |-> r.out]
    /\ UNCHANGED <<metaMu, structCache, calls, dirExists, kv, engineOpen, db, handles, iter, results, keygen,
                   nWrites, nOpens, nFaults, nIters>>

Delete(name, k) ==
    /\ handles[name].held
    /\ nWrites < MaxWrites
    /\ LET r == delete(kv, handles[name], k)
       IN  /\ kv' = r.kv
           /\ ret' = [op |-> "Delete", err |-> r.err]
    /\ nWrites' = nWrites + 1
    /\ UNCHANGED <<metaMu, structCache, calls, dirExists, engineOpen, db, handles, iter, results, keygen,
                   nOpens, nFaults, nIters>>

(***************************************************************************)
(* iter.go: newIter, Iter.Next, Iter.Err, Iter.Close, and Bucket.Iter /    *)
(* Bucket.Prefix.  The read transaction is the key space as it was when    *)
(* the transaction began; the badger iterator is a cursor over its keys.   *)
(***************************************************************************)
\* badger Iterator.Seek(p): the smallest key >= p, or none.
Seek(snap, p) ==
    LET ge == {k \in DOMAIN snap : ~LexLess(k, p)}
    IN  IF ge = {} THEN [valid |-> FALSE, cur |-> <<>>]
        ELSE [valid |-> TRUE,
              cur |-> CHOOSE k \in ge : \A o \in ge : o = k \/ LexLess(k, o)]

\* badger Iterator.Next(): the smallest key > cur, or none.
Advance(snap, cur) ==
    LET gt == {k \in DOMAIN snap : LexLess(cur, k)}
    IN  IF gt = {} THEN [valid |-> FALSE, cur |-> <<>>]
        ELSE [valid |-> TRUE,
              cur |-> CHOOSE k \in gt : \A o \in gt : o = k \/ LexLess(k, o)]

\* badger Iterator.ValidForPrefix(prefix).
ValidForPrefix(it, prefix) == it.valid /\ HasPrefix(it.cur, prefix)

\* &Iter{err: err}: no transaction, no badger iterator.
ErrIter(err) ==
    [made |-> TRUE, live |-> FALSE, id |-> <<0, 0>>, prefix |-> <<>>, snap |-> EmptyMap,
     valid |-> FALSE, cur |-> <<>>, resultType |-> "", advanced |-> FALSE,
     closed |-> FALSE, err |-> err, txnOpen |-> FALSE]

\* newIter(bucket, prefix).
newIter(m, h, p) ==
    LET prefix == internalKey(h.id, p)
        pos == Seek(m, prefix)
    IN  [made |-> TRUE, live |-> TRUE, id |-> h.id, prefix |-> prefix, snap |-> m,
         valid |-> pos.valid, cur |-> pos.cur, resultType |-> "", advanced |-> FALSE,
         closed |-> FALSE, err |-> nil, txnOpen |-> TRUE]

\* Bucket.Iter().
bucketIter(m, h) == IF h.err # nil THEN ErrIter(h.err) ELSE newIter(m, h, <<>>)

\* Bucket.Prefix(prefix).
bucketPrefix(m, h, k) ==
    LET mk == Marshal(k)
    IN  IF h.err # nil THEN ErrIter(h.err)
        ELSE IF mk.err # nil THEN ErrIter(mk.err)
        ELSE newIter(m, h, mk.b)

\* Iter.Close().
iterClose(it) ==
    IF it.err # nil THEN it
    ELSE [it EXCEPT !.closed = TRUE, !.txnOpen = FALSE, !.snap = EmptyMap]

\* A result argument that is not a pointer to a struct (newStructType fails).
NotAStruct == "notstruct"
ErrNotStruct == "is not a struct"

\* Iter.Next that only discards the transaction when the entries run out,
\* without marking the iterator closed.
iterNextDiscardsOnly(it, kind, result) ==
    LET pos == IF it.advanced THEN Advance(it.snap, it.cur)
               ELSE [valid |-> it.valid, cur |-> it.cur]
        it1 == [it EXCEPT !.valid = pos.valid, !.cur = pos.cur]
        it2 == [it1 EXCEPT !.resultType = IF it.resultType = "" THEN kind ELSE it.resultType]
        dec == codecUnmarshal(it1.snap[it1.cur], result)
        sk == setKey(dec.rec, SubSeq(it1.cur, bucketIdSize + 1, Len(it1.cur)))
    IN  IF it.err # nil THEN [ok |-> FALSE, why |-> "err", it |-> it, result |-> result]
        ELSE IF it.closed THEN [ok |-> FALSE, why |-> "closed", it |-> it, result |-> result]
        ELSE IF ~ValidForPrefix(it1, it1.prefix)
        THEN [ok |-> FALSE, why |-> "exhausted",
              it |-> [it1 EXCEPT !.txnOpen = FALSE], result |-> result]
        ELSE IF it.resultType = "" /\ kind = NotAStruct
        THEN [ok |-> FALSE, why |-> "failed", it |-> [it1 EXCEPT !.err = ErrNotStruct],
              result |-> result]
        ELSE IF dec.err # nil
        THEN [ok |-> FALSE, why |-> "failed", it |-> [it2 EXCEPT !.err = dec.err],
              result |-> dec.rec]
        ELSE IF sk.err # nil
        THEN [ok |-> FALSE, why |-> "failed", it |-> [it2 EXCEPT !.err = sk.err],
              result |-> sk.rec]
        ELSE [ok |-> TRUE, why |-> "ok", it |-> [it2 EXCEPT !.advanced = TRUE],
              result |-> sk.rec]

\* Iter.Next without the test of it.err on entry.
iterNextNoLatch(it, kind, result) ==
    LET pos == IF it.advanced THEN Advance(it.snap, it.cur)
               ELSE [valid |-> it.valid, cur |-> it.cur]
        it1 == [it EXCEPT !.valid = pos.valid, !.cur = pos.cur]
        it2 == [it1 EXCEPT !.resultType = IF it.resultType = "" THEN kind ELSE it.resultType]
        dec == codecUnmarshal(it1.snap[it1.cur], result)
        sk == setKey(dec.rec, SubSeq(it1.cur, bucketIdSize + 1, Len(it1.cur)))
    IN  IF it.closed THEN [ok |-> FALSE, why |-> "closed", it |-> it, result |-> result]
        ELSE IF ~ValidForPrefix(it1, it1.prefix)
        THEN [ok |-> FALSE, why |-> "exhausted", it |-> iterClose(it1), result |-> result]
        ELSE IF it.resultType = "" /\ kind = NotAStruct
        THEN [ok |-> FALSE, why |-> "failed", it |-> [it1 EXCEPT !.err = ErrNotStruct],
              result |-> result]
        ELSE IF dec.err # nil
        THEN [ok |-> FALSE, why |-> "failed", it |-> [it2 EXCEPT !.err = dec.err],
              result |-> dec.rec]
        ELSE IF sk.err # nil
        THEN [ok |-> FALSE, why |-> "failed", it |-> [it2 EXCEPT !.err = sk.err],
              result |-> sk.rec]
        ELSE [ok |-> TRUE, why |-> "ok", it |-> [it2 EXCEPT !.advanced = TRUE],
              result |-> sk.rec]

\* Iter.Next(result): [ok, why, it, result].  kind is the record type of
\* the result argument (NotAStruct when it is no pointer to a struct),
\* result its content before the call.
iterNext(it, kind, result) ==
    LET pos == IF it.advanced THEN Advance(it.snap, it.cur)
               ELSE [valid |-> it.valid, cur |-> it.cur]
        it1 == [it EXCEPT !.valid = pos.valid, !.cur = pos.cur]
        it2 == [it1 EXCEPT !.resultType = IF it.resultType = "" THEN kind ELSE it.resultType]
        dec == codecUnmarshal(it1.snap[it1.cur], result)
        sk == setKey(dec.rec, SubSeq(it1.cur, bucketIdSize + 1, Len(it1.cur)))
    IN  IF it.err # nil THEN [ok |-> FALSE, why |-> "err", it |-> it, result |-> result]
        ELSE IF it.closed THEN [ok |-> FALSE, why |-> "closed", it |-> it, result |-> result]
        ELSE IF ~ValidForPrefix(it1, it1.prefix)
        THEN [ok |-> FALSE, why |-> "exhausted", it |-> iterClose(it1), result |-> result]
        ELSE IF it.resultType = "" /\ kind = NotAStruct
        THEN [ok |-> FALSE, why |-> "failed", it |-> [it1 EXCEPT !.err = ErrNotStruct],
              result |-> result]
        ELSE IF dec.err # nil
        THEN [ok |-> FALSE, why |-> "failed", it |-> [it2 EXCEPT !.err = dec.err],
              result |-> dec.rec]
        ELSE IF sk.err # nil
        THEN [ok |-> FALSE, why |-> "failed", it |-> [it2 EXCEPT !.err = sk.err],
              result |-> sk.rec]
        ELSE [ok |-> TRUE, why |-> "ok", it |-> [it2 EXCEPT !.advanced = TRUE],
              result |-> sk.rec]

Iter(name) ==
    /\ handles[name].held
    /\ nIters < MaxIters
    /\ iter' = bucketIter(kv, handles[name])
    /\ results' = <<>>
    /\ nIters' = nIters + 1
    /\ ret' = [op |-> "Iter"]
    /\ UNCHANGED <<metaMu, structCache, calls, dirExists, kv, engineOpen, db, handles, keygen, nWrites, nOpens,
                   nFaults>>

Prefix(name, k) ==
    /\ handles[name].held
    /\ nIters < MaxIters
    /\ iter' = bucketPrefix(kv, handles[name], k)
    /\ results' = <<>>
    /\ nIters' = nIters + 1
    /\ ret' = [op |-> "Prefix"]
    /\ UNCHANGED <<metaMu, structCache, calls, dirExists, kv, engineOpen, db, handles, keygen, nWrites, nOpens,
                   nFaults>>

\* One call of Next by the caller's loop; the result struct is reused
\* between calls and its type stays the same.
IterNext(kind) ==
    /\ iter.made
    /\ iter.resultType \in {"", kind}
    /\ LET last == IF results = <<>> THEN ZeroRecord(kind) ELSE results[Len(results)]
           r == iterNext(iter, kind, last)
       IN  /\ iter' = r.it
           /\ results' = IF r.ok THEN Append(results, r.result) ELSE results
           /\ ret' = [op |-> "Next", ok |-> r.ok, why |-> r.why]
    /\ UNCHANGED <<metaMu, structCache, calls, dirExists, kv, engineOpen, db, handles, keygen, nWrites, nOpens,
                   nFaults, nIters>>

IterClose ==
    /\ iter.made
    /\ iter' = iterClose(iter)
    /\ ret' = [op |-> "IterClose"]
    /\ UNCHANGED <<metaMu, structCache, calls, dirExists, kv, engineOpen, db, handles, results, keygen, nWrites,
                   nOpens, nFaults, nIters>>

(***************************************************************************)
(* Specifications.  Three next-state relations share the actions above and *)
(* the same variables; each spends its budgets on one part of the program. *)
(***************************************************************************)
(***************************************************************************)
(* struct.go: the key field of a struct type.  A struct type is the        *)
(* sequence of its fields, a field [type, tag]: type is "Id" for bow.Id    *)
(* and "string" for any other type, tag is "key" for `bow:"key"`.  Field   *)
(* indexes count from 0 as reflect's do; -1 is no key field.               *)
(***************************************************************************)
typeOfId == "Id"
Fields == [type : {typeOfId, "string"}, tag : {"key", "none"}]

RECURSIVE SeqsUpTo(_, _)
SeqsUpTo(S, n) ==
    IF n = 0 THEN {<<>>}
    ELSE SeqsUpTo(S, n - 1)
           \cup {Append(q, x) : q \in {y \in SeqsUpTo(S, n - 1) : Len(y) = n - 1}, x \in S}

StructTypes == SeqsUpTo(Fields, MaxFields)

\* The loop of keyIndex from field i on, fieldIndex being its value so far.
\* An Id-typed field is taken and ends the loop; in `case "key"` the break
\* leaves the switch only, so the loop goes on to the next field.
RECURSIVE scanFields(_, _, _)
scanFields(t, i, fieldIndex) ==
    IF i >= Len(t) THEN fieldIndex
    ELSE IF t[i + 1].type = typeOfId THEN i
    ELSE IF t[i + 1].tag = "key" THEN scanFields(t, i + 1, i)
    ELSE scanFields(t, i + 1, fieldIndex)

\* structType.keyIndex of a new structType (ki is -2): [ki, cache].
keyIndex(cache, t) ==
    IF t \in DOMAIN cache THEN [ki |-> cache[t], cache |-> cache]
    ELSE [ki |-> scanFields(t, 0, -1), cache |-> kvSet(cache, t, scanFields(t, 0, -1))]

\* newStructType(v, ...) followed by keyIndex() for a value of struct type t.
KeyIndex(t) ==
    /\ t \in DOMAIN structCache \/ Cardinality(DOMAIN structCache) < MaxCached
    /\ LET r == keyIndex(structCache, t)
       IN  /\ structCache' = r.cache
           /\ ret' = [op |-> "keyIndex", typ |-> t, ki |-> r.ki]
    /\ UNCHANGED <<metaMu, calls, dirExists, kv, engineOpen, db, handles, iter, results, keygen,
                   nWrites, nOpens, nFaults, nIters>>

(***************************************************************************)
(* The key codec called directly (keyCodec.Marshal, keyCodec.Unmarshal).   *)
(***************************************************************************)
\* Codec.Marshal(v, nil) of the key value k.
KeyMarshal(k) ==
    /\ LET m == Marshal(k)
       IN  ret' = [op |-> "Marshal", key |-> k, err |-> m.err, b |-> m.b]
    /\ UNCHANGED <<metaMu, structCache, calls, dirExists, kv, engineOpen, db, handles, iter, results, keygen,
                   nWrites, nOpens, nFaults, nIters>>

\* Codec.Unmarshal(data, &x) for a variable x of the given type that holds old.
KeyUnmarshal(data, kind, old) ==
    /\ LET u == Unmarshal(data, kind, old)
       IN  ret' = [op |-> "Unmarshal", data |-> data, kind |-> kind, old |-> old,
                   err |-> u.err, v |-> u.v]
    /\ UNCHANGED <<metaMu, structCache, calls, dirExists, kv, engineOpen, db, handles, iter, results, keygen,
                   nWrites, nOpens, nFaults, nIters>>

BytesRecords == {r \in Records : r.kind = "string"}
BytesKeys == {k \in Keys : k.kind = "string"}

\* One writable session: buckets, writes, reads and deletes.
Init == InitWith(0, MaxOpens - 1, MaxFaults, MaxIters)

Next ==
    \/ \E ro \in BOOLEAN : Open(ro, "none")
    \/ Close("none")
    \/ \E n \in Names : Bucket(n, "none")
    \/ Buckets
    \/ \E n \in Names, r \in Records : Put(n, r)
    \/ \E n \in Names, r \in BytesRecords : PutBytes(n, r)
    \/ \E n \in Names, k \in Keys : Get(n, k)
    \/ \E n \in Names, k \in BytesKeys : GetBytes(n, k)
    \/ \E n \in Names, k \in Keys : Delete(n, k)

Spec == Init /\ [][Next]_vars

\* One writable session with an iterator running beside the writes.
InitIter == InitWith(0, MaxOpens - 1, MaxFaults, 0)

NextIter ==
    \/ \E ro \in BOOLEAN : Open(ro, "none")
    \/ Close("none")
    \/ \E n \in Names : Bucket(n, "none")
    \/ \E n \in Names, r \in Records : Put(n, r)
    \/ \E n \in Names, k \in Keys : Delete(n, k)
    \/ \E n \in Names : Iter(n)
    \/ \E n \in Names, k \in PrefixKeys : Prefix(n, k)
    \/ \E kind \in RecordKinds \cup {NotAStruct} : IterNext(kind)
    \/ IterClose

SpecIter == InitIter /\ [][NextIter]_vars

\* Sessions: opening read-only or writable, closing, reopening, and engine
\* failures, with one write to carry across them.
InitLife == InitWith(MaxWrites - 1, 0, 0, 0)

NextLife ==
    \/ \E ro \in BOOLEAN, f \in Faults : Open(ro, f)
    \/ \E f \in Faults : Close(f)
    \/ \E n \in Names, f \in Faults : Bucket(n, f)
    \/ Buckets
    \/ \E n \in Names, r \in Records : Put(n, r)
    \/ \E n \in Names, r \in BytesRecords : PutBytes(n, r)
    \/ \E n \in Names, k \in Keys : Delete(n, k)
    \/ \E n \in Names : Iter(n)
    \/ \E kind \in RecordKinds : IterNext(kind)
    \/ IterClose

SpecLife == InitLife /\ [][NextLife]_vars

\* Records as Put accepts them: with a key field of each kind holding its
\* zero value or another value, and without a key field.
PutRecords ==
    {[kind |-> k.kind, key |-> k.v, data |-> d] :
        k \in [kind : {"string"}, v : {<<>>, <<1>>}]
                 \cup [kind : {"bytes", "Id"}, v : {<<>>}]
                 \cup [kind : {"uint16", "int"}, v : {<<0>>, <<1>>}]
                 \cup [kind : {NoKeyField}, v : {<<>>}],
        d \in Data}

\* One writable session of Puts with every kind of key field.
InitKeys == InitWith(0, MaxOpens - 1, MaxFaults, MaxIters)

NextKeys ==
    \/ \E ro \in BOOLEAN : Open(ro, "none")
    \/ \E n \in Names : Bucket(n, "none")
    \/ \E n \in Names, r \in PutRecords : Put(n, r)

SpecKeys == InitKeys /\ [][NextKeys]_vars

(***************************************************************************)
(* DB.Bucket and DB.Buckets at the grain of db.metaMu: every RLock, Lock,  *)
(* RUnlock and Unlock is a step of its own, and a goroutine blocked in     *)
(* RLock or Lock has no step until the lock is granted.  calls[g].pc names *)
(* what the goroutine does next: RLock, lookup (db.bucket under the read   *)
(* lock), Lock, blocked (inside Lock), body (createBucket under the write  *)
(* lock), Unlock (its deferred Unlock), names (DB.Buckets under the read   *)
(* lock).                                                                  *)
(***************************************************************************)
\* sync.RWMutex.  RLock is granted when no writer holds the lock and no Lock
\* call is blocked; a Lock call announces itself, which holds later readers
\* off, and is granted when the lock has no writer and no reader.
CanRLock == metaMu.writer = 0 /\ metaMu.waiting = {}
CanLock(g) == g \in metaMu.waiting /\ metaMu.writer = 0 /\ metaMu.readers = {}

\* A goroutine calls db.Bucket(name).
BucketEnter(g, name) ==
    /\ db.open
    /\ calls[g].pc \in {"idle", "done"}
    /\ calls[g].n < MaxCalls
    /\ calls' = [calls EXCEPT ![g] = [pc |-> "RLock", name |-> name, missed |-> FALSE,
                                      bucket |-> NoHandle, n |-> @.n + 1]]
    /\ UNCHANGED <<metaMu, structCache, dirExists, kv, engineOpen, db, handles, iter, results,
                   ret, keygen, nWrites, nOpens, nFaults, nIters>>

\* DB.bucket: db.metaMu.RLock().
BucketRLock(g) ==
    /\ calls[g].pc = "RLock"
    /\ CanRLock
    /\ metaMu' = [metaMu EXCEPT !.readers = @ \cup {g}]
    /\ calls' = [calls EXCEPT ![g].pc = "lookup"]
    /\ UNCHANGED <<structCache, dirExists, kv, engineOpen, db, handles, iter, results, ret,
                   keygen, nWrites, nOpens, nFaults, nIters>>

\* DB.bucket: the lookup and db.metaMu.RUnlock(); then DB.Bucket returns the
\* bucket found, or ErrNotFound on a read-only database, or goes on to
\* createBucket.
BucketRUnlock(g) ==
    /\ calls[g].pc = "lookup"
    /\ metaMu' = [metaMu EXCEPT !.readers = @ \ {g}]
    /\ LET name == calls[g].name
       IN  calls' = [calls EXCEPT ![g] =
              IF name \in DOMAIN db.meta.Buckets
              THEN [@ EXCEPT !.pc = "done", !.bucket = OkBucket(db.meta.Buckets[name])]
              ELSE IF db.readOnly
              THEN [@ EXCEPT !.pc = "done", !.missed = TRUE,
                             !.bucket = ErrBucket(ErrNotFound)]
              ELSE [@ EXCEPT !.pc = "Lock", !.missed = TRUE]]
    /\ ret' = IF calls'[g].pc = "done"
              THEN [op |-> "Bucket.return", g |-> g, err |-> calls'[g].bucket.err]
              ELSE ret
    /\ UNCHANGED <<structCache, dirExists, kv, engineOpen, db, handles, iter, results, keygen,
                   nWrites, nOpens, nFaults, nIters>>

\* createBucket: db.metaMu.Lock() is called and blocks new readers.
CreateLockCall(g) ==
    /\ calls[g].pc = "Lock"
    /\ metaMu' = [metaMu EXCEPT !.waiting = @ \cup {g}]
    /\ calls' = [calls EXCEPT ![g].pc = "blocked"]
    /\ UNCHANGED <<structCache, dirExists, kv, engineOpen, db, handles, iter, results, ret,
                   keygen, nWrites, nOpens, nFaults, nIters>>

\* createBucket: db.metaMu.Lock() returns.
CreateLock(g) ==
    /\ calls[g].pc = "blocked"
    /\ CanLock(g)
    /\ metaMu' = [metaMu EXCEPT !.writer = g, !.waiting = @ \ {g}]
    /\ calls' = [calls EXCEPT ![g].pc = "body"]
    /\ UNCHANGED <<structCache, dirExists, kv, engineOpen, db, handles, iter, results, ret,
                   keygen, nWrites, nOpens, nFaults, nIters>>

\* createBucket from the recheck to its return statement, under the write
\* lock.
CreateBody(g, fault) ==
    /\ calls[g].pc = "body"
    /\ FaultOK(fault)
    /\ fault \in {"none", "set", "commit", "lease"}
    /\ CountFault(fault)
    /\ LET cb == createBucket(calls[g].name, fault)
       IN  /\ fault # "none" => calls[g].name \notin DOMAIN db.meta.Buckets
           /\ fault = "lease" => db.next >= db.leased
           /\ calls[g].name \notin DOMAIN db.meta.Buckets => DrawOK
           /\ calls' = [calls EXCEPT ![g] = [@ EXCEPT !.pc = "Unlock", !.bucket = cb.bucket]]
           /\ kv' = cb.kv
           /\ db' = cb.db
    /\ UNCHANGED <<metaMu, structCache, dirExists, engineOpen, handles, iter, results, ret,
                   keygen, nWrites, nOpens, nIters>>

\* createBucket's deferred Unlock that releases the lock only when the
\* creation succeeded.
CreateUnlockOnSuccess(g) ==
    /\ calls[g].pc = "Unlock"
    /\ metaMu' = IF calls[g].bucket.err = nil THEN [metaMu EXCEPT !.writer = 0] ELSE metaMu
    /\ calls' = [calls EXCEPT ![g].pc = "done"]
    /\ ret' = [op |-> "Bucket.return", g |-> g, err |-> calls[g].bucket.err]
    /\ UNCHANGED <<structCache, dirExists, kv, engineOpen, db, handles, iter, results, keygen,
                   nWrites, nOpens, nFaults, nIters>>

\* createBucket returns: the deferred db.metaMu.Unlock() runs, whatever the
\* return statement, and DB.Bucket returns the bucket or &Bucket{err}.
CreateUnlock(g) ==
    /\ calls[g].pc = "Unlock"
    /\ metaMu' = [metaMu EXCEPT !.writer = 0]
    /\ calls' = [calls EXCEPT ![g].pc = "done"]
    /\ ret' = [op |-> "Bucket.return", g |-> g, err |-> calls[g].bucket.err]
    /\ UNCHANGED <<structCache, dirExists, kv, engineOpen, db, handles, iter, results, keygen,
                   nWrites, nOpens, nFaults, nIters>>

\* A goroutine calls db.Buckets().
BucketsEnter(g) ==
    /\ db.open
    /\ calls[g].pc \in {"idle", "done"}
    /\ calls[g].n < MaxCalls
    /\ calls' = [calls EXCEPT ![g] = [pc |-> "Buckets.RLock", name |-> 0, missed |-> FALSE,
                                      bucket |-> NoHandle, n |-> @.n + 1]]
    /\ UNCHANGED <<metaMu, structCache, dirExists, kv, engineOpen, db, handles, iter, results,
                   ret, keygen, nWrites, nOpens, nFaults, nIters>>

\* DB.Buckets: db.metaMu.RLock().
BucketsRLock(g) ==
    /\ calls[g].pc = "Buckets.RLock"
    /\ CanRLock
    /\ metaMu' = [metaMu EXCEPT !.readers = @ \cup {g}]
    /\ calls' = [calls EXCEPT ![g].pc = "names"]
    /\ UNCHANGED <<structCache, dirExists, kv, engineOpen, db, handles, iter, results, ret,
                   keygen, nWrites, nOpens, nFaults, nIters>>

\* DB.Buckets: the names are collected, the deferred RUnlock runs, and the
\* call returns.
BucketsRUnlock(g) ==
    /\ calls[g].pc = "names"
    /\ metaMu' = [metaMu EXCEPT !.readers = @ \ {g}]
    /\ calls' = [calls EXCEPT ![g].pc = "done"]
    /\ ret' = [op |-> "Buckets.return", g |-> g, names |-> DOMAIN db.meta.Buckets]
    /\ UNCHANGED <<structCache, dirExists, kv, engineOpen, db, handles, iter, results, keygen,
                   nWrites, nOpens, nFaults, nIters>>

\* The steps of goroutine g inside a call.
Step(g) ==
    \/ BucketRLock(g)
    \/ BucketRUnlock(g)
    \/ CreateLockCall(g)
    \/ CreateLock(g)
    \/ \E f \in Faults : CreateBody(g, f)
    \/ CreateUnlock(g)
    \/ BucketsRLock(g)
    \/ BucketsRUnlock(g)

\* One writable session in which goroutines call DB.Bucket concurrently.
InitConc == InitWith(MaxWrites, MaxOpens - 1, MaxFaults, MaxIters)

NextConc ==
    \/ \E ro \in BOOLEAN : Open(ro, "none")
    \/ Buckets
    \/ \E g \in Goroutines, n \in Names : BucketLookup(g, n)
    \/ \E g \in Goroutines : BucketCreate(g, "none")

SpecConc == InitConc /\ [][NextConc]_vars

\* One session, writable on a new directory or read-only or writable on a
\* database that holds bucket 1, in which goroutines call DB.Bucket and
\* DB.Buckets concurrently; the scheduler runs every goroutine that can take
\* a step, and the engine's calls return (with an error when it fails).
InitLock ==
    \E loc \in {FreshLocation,
                [dir |-> TRUE,
                 kv |-> kvSet(kvSet(EmptyMap, bucketIdSequence, SeqDoc(1)),
                              metaKey,
                              MetaDoc([Version |-> version,
                                       Buckets |-> kvSet(EmptyMap, 1,
                                                         BucketIdOf(reservedOffset))]))]} :
        InitAt(loc, MaxWrites, MaxOpens - 1, 0, MaxIters)

NextLock ==
    \/ \E ro \in BOOLEAN : Open(ro, "none")
    \/ \E g \in Goroutines, n \in Names : BucketEnter(g, n)
    \/ \E g \in Goroutines : BucketsEnter(g)
    \/ \E g \in Goroutines : Step(g)

SpecLock == InitLock /\ [][NextLock]_vars /\ \A g \in Goroutines : WF_vars(Step(g))

\* Opening locations as earlier processes left them: no directory; an
\* engine's files without a metadata document (Open was interrupted before
\* the document was committed, or the files were made with Badger itself);
\* and a database with no bucket or with bucket 1, written by this format
\* version or by the next one.
StoredVersions == {version, version + 1}

Locations ==
    {FreshLocation, [dir |-> TRUE, kv |-> EmptyMap]}
      \cup {[dir |-> TRUE,
              kv |-> kvSet(kvSet(EmptyMap, bucketIdSequence, SeqDoc(Cardinality(DOMAIN b))),
                           metaKey, MetaDoc([Version |-> v, Buckets |-> b]))] :
              v \in StoredVersions,
              b \in {EmptyMap, kvSet(EmptyMap, 1, BucketIdOf(reservedOffset))}}

InitOpen == \E loc \in Locations : InitAt(loc, MaxWrites - 1, 0, MaxFaults, MaxIters)

NextOpen ==
    \/ \E ro \in BOOLEAN : Open(ro, "none")
    \/ Close("none")
    \/ \E n \in Names : Bucket(n, "none")
    \/ Buckets
    \/ \E n \in Names, r \in Records : Put(n, r)
    \/ \E n \in Names, k \in Keys : Get(n, k)

SpecOpen == InitOpen /\ [][NextOpen]_vars

\* The key codec on its own: key values of every kind of the codec's type
\* switches, and of two kinds it has no case for.
IntValues == {-2, -1, 0, 1, 2, 255, 256}
ByteValues == {<<>>, <<1>>, <<1, 2>>}
SliceValues == {<<>>, <<1>>, <<1, 2>>}

\* n is a value of the integer kind.
InRange(kind, n) ==
    CASE kind = "byte" -> n \in 0..255
      [] kind = "int8" -> n \in -128..127
      [] kind \in UnsignedKinds \cup {"uint"} -> n >= 0
      [] OTHER -> TRUE

ScalarKinds ==
    {"byte"} \cup FixedKinds \cup PlatformKinds \cup FixedPointerKinds
      \cup PlatformPointerKinds \cup OtherKinds

CodecKeys ==
    [kind : VerbatimKinds, v : ByteValues]
      \cup {k \in [kind : ScalarKinds, v : {<<n>> : n \in IntValues}] :
              InRange(ElemOf(k.kind), k.v[1])}
      \cup [kind : FixedSliceKinds \cup PlatformSliceKinds, v : SliceValues]

\* What Unmarshal is given: nothing, the bytes Marshal produced for a key,
\* and the plain big-endian bytes of an integer key (of a negative one for
\* the kinds of one and two bytes).
CodecData ==
    {<<>>} \cup {Marshal(k).b : k \in CodecKeys}
      \cup {WriteAll(k.v, Width(ElemOf(k.kind))) :
              k \in {x \in CodecKeys :
                       /\ ElemOf(x.kind) \in FixedKinds \cup PlatformKinds
                       /\ \/ Width(ElemOf(x.kind)) <= 2
                          \/ \A i \in DOMAIN x.v : x.v[i] >= 0}}

\* The values the decoded-into variable may hold before the call.
OldValues(kind) == {ZeroKey(kind)} \cup
    (IF kind \in FixedSliceKinds \cup PlatformSliceKinds THEN {<<0>>, <<0, 0>>} ELSE {})

InitCodec == InitWith(MaxWrites, MaxOpens, MaxFaults, MaxIters)

NextCodec ==
    \/ \E k \in CodecKeys : KeyMarshal(k)
    \/ \E data \in CodecData, kind \in KeyKinds \cup OtherKinds :
          \E old \in OldValues(kind) : KeyUnmarshal(data, kind, old)

SpecCodec == InitCodec /\ [][NextCodec]_vars

\* The record mapper on its own.
InitMapper == InitWith(MaxWrites, MaxOpens, MaxFaults, MaxIters)

NextMapper == \E t \in StructTypes : KeyIndex(t)

SpecMapper == InitMapper /\ [][NextMapper]_vars

\* A database whose bucket ids are nearly used up.  Ids are never given
\* back: every creation, failed ones included, draws one, and a session
\* that ends without Close forfeits the rest of its lease.  The locations
\* hold a stored counter just below, at and above LastCounter, and no bucket
\* or bucket 1.

UsedUpLocations ==
    {[dir |-> TRUE,
      kv |-> kvSet(kvSet(EmptyMap, bucketIdSequence, SeqDoc(n)),
                   metaKey, MetaDoc([Version |-> version, Buckets |-> b]))] :
      n \in {LastCounter - 1, LastCounter, LastCounter + 1},
      b \in {EmptyMap, kvSet(EmptyMap, 1, BucketIdOf(reservedOffset))}}

CapRecords == {r \in Records : r.kind = "string" /\ r.data = 1}
CapKeys == {KeyOfRecord(r) : r \in CapRecords}

InitCap == \E loc \in UsedUpLocations : InitAt(loc, 0, MaxOpens - 1, MaxFaults, 0)

NextCap ==
    \/ Open(FALSE, "none")
    \/ \E n \in Names : Bucket(n, "none")
    \/ \E n \in Names, r \in CapRecords : Put(n, r)
    \/ \E n \in Names, k \in CapKeys : Get(n, k)
    \/ \E n \in Names, k \in CapKeys : Delete(n, k)
    \/ \E n \in Names : Iter(n)
    \/ \E kind \in {"string"} : IterNext(kind)

SpecCap == InitCap /\ [][NextCap]_vars

(***************************************************************************)
(* Properties.                                                             *)
(***************************************************************************)
KeyOf(r) == [kind |-> r.kind, v |-> r.key]
RecordsAt(k) == {r \in Records : KeyOf(r) = k}

\* A step that writes user key k of bucket name n.
WritesKey(n, k) ==
    /\ ret'.op \in {"Put", "PutBytes", "Delete"}
    /\ \/ \E r \in RecordsAt(k) : Put(n, r) \/ PutBytes(n, r)
       \/ Delete(n, k)

\* What Get(k, &out) on the handle of n returns, out a zero record, before
\* and after a step.
GetOf(n, k) == get(kv, handles[n], k, ZeroRecord(k.kind))
GetAfter(n, k) == get(kv', handles'[n], k, ZeroRecord(k.kind))

\* C1: round trip.  When Put(r) on a bucket succeeds for a record r whose
\* key field holds an explicit non-empty key k, Get(k, &out) on that bucket
\* succeeds with out = r, and a Get that succeeds keeps returning the same
\* record over every later step that is not a Put, PutBytes or Delete on k
\* in that bucket.
C1_RoundTrip ==
    [][/\ \A n \in Names, r \in Records :
            (ret'.op = "Put" /\ ret'.err = nil /\ key(r).b # <<>> /\ Put(n, r))
              => GetAfter(n, KeyOf(r)) = [err |-> nil, out |-> r]
       /\ \A n \in Names, k \in Keys :
            (handles[n].held /\ handles'[n] = handles[n]
                /\ GetOf(n, k).err = nil /\ ~WritesKey(n, k))
              => GetAfter(n, k) = GetOf(n, k)]_vars

\* A Get has returned a record stored under an integer key.
C1_Witness ==
    /\ ret.op = "Get" /\ ret.err = nil
    /\ ret.out \in Records /\ ret.out.kind = "uint16"

\* The internal keys of the bucket behind the handle of n.
BucketEntries(n) == {ik \in DOMAIN kv : HasPrefix(ik, handles[n].id)}
InternalKeyOf(n, k) == internalKey(handles[n].id, Marshal(k).b)

WritesBucket(n) ==
    /\ ret'.op \in {"Put", "PutBytes", "Delete"}
    /\ \/ \E r \in Records : Put(n, r) \/ PutBytes(n, r)
       \/ \E k \in Keys : Delete(n, k)

\* What a loop `for it.Next(&result)` over the iterator it yields, result a
\* struct of the given record type: [seq, err], the records received and
\* Err() afterwards.
Drain(it0, kind) ==
    LET RECURSIVE loop(_, _, _)
        loop(it, acc, last) ==
            LET r == iterNext(it, kind, last)
            IN  IF r.ok THEN loop(r.it, Append(acc, r.result), r.result)
                ELSE [seq |-> acc, err |-> r.it.err]
    IN  loop(it0, <<>>, ZeroRecord(kind))

\* C3: bucket isolation.  Two distinct names with usable handles never map
\* a user key to the same internal key, and a Put, PutBytes or Delete on
\* one bucket changes neither the result of any Get on another bucket nor
\* the sequence that iterating the other bucket yields.
C3_Isolation ==
    /\ [](\A a, b \in Names :
            (a # b /\ handles[a].held /\ handles[b].held
                /\ handles[a].err = nil /\ handles[b].err = nil)
              => \A k \in Keys : InternalKeyOf(a, k) # InternalKeyOf(b, k))
    /\ [][\A a, b \in Names :
            (a # b /\ handles[b].held /\ WritesBucket(a))
              => /\ \A k \in Keys : GetAfter(b, k) = GetOf(b, k)
                 /\ \A kind \in RecordKinds :
                        Drain(bucketIter(kv', handles'[b]), kind)
                          = Drain(bucketIter(kv, handles[b]), kind)]_vars

\* Two buckets hold the same user key with different records, the second
\* written last.
C3_Witness ==
    /\ ret.op = "Put" /\ ret.err = nil
    /\ \E k \in Keys :
          /\ GetOf(1, k).err = nil /\ GetOf(2, k).err = nil
          /\ GetOf(1, k).out # GetOf(2, k).out

\* C7: in a database opened read-only, Bucket(name) for a name that is not
\* registered returns a bucket latched with ErrNotFound; the counter, the
\* in-memory metadata, the stored metadata document (and the rest of the
\* key space) and the list Buckets() returns are as before the call.
C7_ReadOnlyMiss ==
    [][\A n \in Names :
        (db.open /\ db.readOnly /\ n \notin DOMAIN db.meta.Buckets
            /\ ret'.op = "Bucket" /\ \E f \in Faults : Bucket(n, f))
          => /\ handles'[n].held /\ handles'[n].err = ErrNotFound
             /\ db'.next = db.next /\ db'.leased = db.leased
             /\ db'.meta = db.meta
             /\ kv' = kv
             /\ DOMAIN db'.meta.Buckets = DOMAIN db.meta.Buckets]_vars

\* A read-only database, holding one registered bucket, has answered
\* Bucket for an unregistered name.
C7_Witness ==
    /\ db.open /\ db.readOnly /\ ret.op = "Bucket"
    /\ DOMAIN db.meta.Buckets # {}
    /\ \E n \in Names \ DOMAIN db.meta.Buckets :
          handles[n].held /\ handles[n].err = ErrNotFound

\* The user key of an internal key.
Strip(ik) == SubSeq(ik, bucketIdSize + 1, Len(ik))
\* The record held by the entry at internal key ik of the key space m: the
\* stored document, its key field holding the user key it is stored under.
UserKey(kind, b) ==
    IF kind \in VerbatimKinds THEN b
    ELSE (CHOOSE k \in Keys : k.kind = kind /\ Marshal(k).b = b).v
RecordAt(m, ik) ==
    [kind |-> m[ik].kind, key |-> UserKey(m[ik].kind, Strip(ik)), data |-> m[ik].data]

\* The keys of S in ascending byte order.
RECURSIVE Ascending(_)
Ascending(S) ==
    IF S = {} THEN <<>>
    ELSE LET k == CHOOSE x \in S : \A y \in S : y = x \/ LexLess(x, y)
         IN  <<k>> \o Ascending(S \ {k})

\* The caller's iterator is in use: made from a usable bucket, not closed
\* and without a latched error.
IterRunning == iter.made /\ iter.live /\ ~iter.closed /\ iter.err = nil

\* Every entry of S in the iterator's snapshot is a record of the type the
\* caller passes to Next.
SameType(S, kind) ==
    \A ik \in S : iter.snap[ik].t = "rec" /\ iter.snap[ik].kind = kind

\* The entries of the key space m that are not reserved ones.
UserEntries(m) == [ik \in {x \in DOMAIN m : x[1] # reserved} |-> m[ik]]

\* The records of the bucket with the given id in m, in key order, when all
\* of them are of one record type.
Stored(m, id) ==
    LET w == Ascending({ik \in DOMAIN m : HasPrefix(ik, id)})
    IN  [i \in 1..Len(w) |-> RecordAt(m, w[i])]
OneType(m, id, kind) ==
    \A ik \in DOMAIN m : HasPrefix(ik, id) => m[ik].t = "rec" /\ m[ik].kind = kind

\* Through every usable handle, each stored record is what Get returns for
\* its key and what iterating the bucket yields.
AllReadable ==
    \A n \in Names :
        (handles[n].held /\ handles[n].err = nil)
          => /\ \A k \in Keys :
                    InternalKeyOf(n, k) \in DOMAIN kv
                      => GetOf(n, k) = [err |-> nil,
                                        out |-> RecordAt(kv, InternalKeyOf(n, k))]
             /\ \A kind \in RecordKinds :
                    OneType(kv, handles[n].id, kind)
                      => Drain(bucketIter(kv, handles[n]), kind)
                           = [seq |-> Stored(kv, handles[n].id), err |-> nil]

\* C4: iterator snapshot isolation.  When Next returns false on a running
\* iterator, the records it has yielded are exactly the records committed
\* in its bucket and prefix when it was created: every Put committed before
\* creation is observed, and no Put or Delete committed after creation,
\* whatever the interleaving of Next with Put and Delete, changes them.
C4_SnapshotIsolation ==
    [][\A kind \in RecordKinds :
        LET then == {ik \in DOMAIN iter.snap : HasPrefix(ik, iter.prefix)}
        IN  (IterRunning /\ SameType(then, kind)
                /\ ret'.op = "Next" /\ ~ret'.ok /\ IterNext(kind))
              => {results'[i] : i \in DOMAIN results'}
                   = {RecordAt(iter.snap, ik) : ik \in then}]_vars

\* C9: prefix iteration.  The iterator of Prefix(p) yields the records of
\* its bucket, as of its creation, whose encoded user key starts with p:
\* each once, in ascending key-byte order, and none whose key does not
\* start with p.
C9_PrefixIteration ==
    [][\A kind \in RecordKinds :
        LET p == Strip(iter.prefix)
            match == {ik \in DOMAIN iter.snap :
                        HasPrefix(ik, iter.id) /\ HasPrefix(Strip(ik), p)}
            want == Ascending(match)
        IN  (IterRunning /\ Len(iter.prefix) > bucketIdSize /\ SameType(match, kind)
                /\ ret'.op = "Next" /\ IterNext(kind))
              => /\ Len(results') <= Len(want)
                 /\ \A i \in DOMAIN results' :
                        /\ results'[i] = RecordAt(iter.snap, want[i])
                        /\ HasPrefix(key(results'[i]).b, p)
                 /\ ~ret'.ok => Len(results') = Len(want)]_vars

\* C10: full-bucket iteration.  Calling Next on the iterator of Iter() until
\* it returns false yields every record the bucket held at creation, once,
\* with its latest value, in ascending order of the internal key, starting
\* with the first entry, and nothing of another bucket or of the reserved
\* entries.
C10_FullIteration ==
    [][\A kind \in RecordKinds :
        LET all == {ik \in DOMAIN iter.snap : HasPrefix(ik, iter.id)}
            want == Ascending(all)
        IN  (IterRunning /\ Len(iter.prefix) = bucketIdSize /\ SameType(all, kind)
                /\ ret'.op = "Next" /\ IterNext(kind))
              => /\ results' = [i \in 1..Len(results') |->
                                  RecordAt(iter.snap, want[i])]
                 /\ ret'.ok => Len(results') <= Len(want)
                 /\ ~ret'.ok => Len(results') = Len(want)]_vars

\* The database is open again on a location that held buckets before: a
\* read-only open needs an existing location, and a writable one finds the
\* counter left by an earlier session.
Reopened == db.open /\ (db.readOnly \/ db.leased > bandwidth)

\* C5: persistence across reopen, in runs without engine failures.  Close
\* leaves the registered names and ids in the stored metadata document and
\* every record in place, Open loads exactly that document and changes no
\* record, and a bucket obtained from the reopened database returns every
\* stored record from Get and from iteration with its key and value.
C5_Persistence ==
    /\ [][(nFaults' = 0 /\ ret'.op = "Close" /\ ret'.err = nil /\ Close("none"))
            => /\ readMeta(kv').meta.Buckets = db.meta.Buckets
               /\ UserEntries(kv') = UserEntries(kv)]_vars
    /\ [][(nFaults' = 0 /\ ret'.op = "Open" /\ ret'.err = nil)
            => /\ db'.meta.Buckets = readMeta(kv).meta.Buckets
               /\ UserEntries(kv') = UserEntries(kv)]_vars
    /\ []((nFaults = 0 /\ Reopened /\ ret.op = "Bucket" /\ ret.err = nil)
            => AllReadable)

\* C6: in a database opened read-only, every Put, PutBytes and Delete on
\* every handle obtained from it, for a registered or an unregistered name,
\* returns ErrReadOnly and leaves the key space and the metadata unchanged,
\* and Get and Iter on registered buckets return the stored records.
C6_ReadOnly ==
    /\ [][\A n \in Names :
            (db.open /\ db.readOnly /\ handles[n].held /\ WritesBucket(n))
              => ret'.err = ErrReadOnly /\ kv' = kv /\ db' = db]_vars
    /\ []((db.open /\ db.readOnly) => AllReadable)

\* C8: a bucket returned in an error state returns that error from every
\* Put, PutBytes, Get, GetBytes and Delete, its iterators yield nothing and
\* report that error, and none of these calls changes the key space or
\* panics.
C8_ErrorBucket ==
    /\ [][\A n \in Names :
            (handles[n].held /\ handles[n].err # nil)
              => /\ WritesBucket(n) => (ret'.err = handles[n].err /\ kv' = kv)
                 /\ (ret'.op = "Iter" /\ Iter(n)) => iter'.err = handles[n].err]_vars
    /\ [](\A n \in Names :
            (handles[n].held /\ handles[n].err # nil)
              => /\ \A k \in Keys :
                        /\ GetOf(n, k).err = handles[n].err
                        /\ getBytes(kv, handles[n], k).err = handles[n].err
                        /\ bucketPrefix(kv, handles[n], k).err = handles[n].err
                 /\ \A kind \in RecordKinds :
                        Drain(bucketIter(kv, handles[n]), kind)
                          = [seq |-> <<>>, err |-> handles[n].err])

\* The identifiers a name -> identifier map hands out are pairwise distinct.
Injective(f) == \A a, b \in DOMAIN f : f[a] = f[b] => a = b
Ids(f) == {f[a] : a \in DOMAIN f}

\* A call of DB.Bucket for a name the in-memory metadata does not hold.
CreatesBucket(n) ==
    /\ ret'.op = "Bucket"
    /\ db.open /\ ~db.readOnly
    /\ n \notin DOMAIN db.meta.Buckets
    /\ \E f \in Faults : Bucket(n, f)

\* C11: when DB.Bucket fails to create a bucket (it returns an error bucket
\* for a name the in-memory metadata did not hold), the in-memory metadata
\* is as it was before the call and does not hold the name.
C11_NoPartialRegistration ==
    [][\A n \in Names :
        (CreatesBucket(n) /\ ret'.err # nil)
          => /\ db'.meta = db.meta
             /\ n \notin DOMAIN db'.meta.Buckets]_vars

\* C12: in every state the registered names, in memory and in the stored
\* document, have pairwise distinct identifiers, and a bucket created by
\* DB.Bucket gets an identifier no registered name holds.
C12_InjectiveIds ==
    /\ [](Injective(db.meta.Buckets) /\ Injective(readMeta(kv).meta.Buckets))
    /\ [][\A n \in Names :
            (CreatesBucket(n) /\ ret'.err = nil)
              => /\ n \in DOMAIN db'.meta.Buckets
                 /\ db'.meta.Buckets[n] \notin Ids(db.meta.Buckets)
                 /\ db'.meta.Buckets[n] \notin Ids(readMeta(kv).meta.Buckets)
                 /\ handles'[n].id = db'.meta.Buckets[n]]_vars

\* Two names are registered, one created before the database was closed and
\* reopened and one after.
C12_Witness ==
    /\ db.open /\ ~db.readOnly
    /\ db.leased = bandwidth + 1
    /\ db.next = 2
    /\ Cardinality(DOMAIN db.meta.Buckets) = 2
    /\ ret.op = "Bucket" /\ ret.err = nil

\* The goroutines whose call of DB.Bucket has returned.
Returned == {g \in Goroutines : calls[g].pc = "done"}

\* C13: concurrent resolve-or-create, in a session without engine failures
\* on a fresh location.  Every call of DB.Bucket that has returned holds a
\* usable handle with the identifier registered for its name, so calls for
\* the same name hold the same identifier and calls for distinct names hold
\* distinct ones; one identifier has been drawn from the counter per
\* registered name; and a createBucket that finds the name registered by
\* another goroutine draws nothing and registers nothing.
C13_ConcurrentCreate ==
    /\ []((db.open /\ ~db.readOnly)
            => /\ \A g \in Returned :
                    /\ calls[g].bucket.err = nil
                    /\ calls[g].name \in DOMAIN db.meta.Buckets
                    /\ calls[g].bucket.id = db.meta.Buckets[calls[g].name]
               /\ \A g, h \in Returned :
                    (calls[g].name = calls[h].name)
                      <=> (calls[g].bucket.id = calls[h].bucket.id)
               /\ db.next = Cardinality(DOMAIN db.meta.Buckets)
               /\ readMeta(kv).meta = db.meta)
    /\ [][\A g \in Goroutines :
            (calls[g].pc = "create" /\ calls[g].name \in DOMAIN db.meta.Buckets
               /\ ret'.op = "BucketCreate" /\ calls'[g].pc = "done")
              => db' = db /\ kv' = kv]_vars

\* Two goroutines both missed the lookup for the same name and both have
\* returned with the same identifier.
C13_Witness ==
    /\ db.open /\ ~db.readOnly
    /\ \E g, h \in Returned :
          /\ g # h
          /\ calls[g].missed /\ calls[h].missed
          /\ calls[g].name = calls[h].name
          /\ calls[g].bucket.err = nil
          /\ calls[g].bucket.id = calls[h].bucket.id

\* A call of Open that got as far as opening the engine.
OpensEngine ==
    /\ ret'.op = "Open"
    /\ nOpens' = nOpens + 1
    /\ ~engineOpen
    /\ dirExists \/ ~ret'.readOnly

\* C14: Open of a location whose stored metadata document carries a version
\* other than the current format version returns an error and no DB, and
\* leaves the stored document as it is.
C14_VersionCheck ==
    [][(OpensEngine /\ metaKey \in DOMAIN kv /\ kv[metaKey].Version # version)
         => /\ ret'.err # nil
            /\ ~db'.open
            /\ metaKey \in DOMAIN kv' /\ kv'[metaKey] = kv[metaKey]]_vars

\* C15: bootstrap on open.  A writable Open of a location that holds no
\* metadata document, with no engine failure, succeeds and stores an empty
\* document of the current format version; a read-only Open of a location
\* that holds no metadata document returns an error and writes nothing.
C15_Bootstrap ==
    [][(ret'.op = "Open" /\ nOpens' = nOpens + 1 /\ ~engineOpen
          /\ metaKey \notin DOMAIN kv)
         => IF ret'.readOnly
            THEN ret'.err # nil /\ ~db'.open /\ kv' = kv
            ELSE nFaults' = nFaults
                   => /\ ret'.err = nil
                      /\ db'.meta = NewMeta
                      /\ metaKey \in DOMAIN kv'
                      /\ kv'[metaKey] = MetaDoc(NewMeta)]_vars

\* The key field of r is absent or holds the zero value of its type.
ZeroKeyed(r) == r.kind = NoKeyField \/ r.key = ZeroKey(r.kind)

\* An internal key of the bucket with the given id made of a generated Id.
GeneratedKey(id, ik) == HasPrefix(ik, id) /\ Len(ik) = bucketIdSize + 8

\* C16: key selection on Put.  A successful Put of a record whose key field
\* holds a non-zero value stores the record under the bucket id followed by
\* that key, encoded; a successful Put of a record without a key field, or
\* with the zero value in it, adds the record under a generated 8-byte Id
\* that no entry had, and changes no existing entry.
C16_KeySelection ==
    [][\A n \in Names, r \in PutRecords :
        (ret'.op = "Put" /\ ret'.err = nil /\ Put(n, r))
          => IF ZeroKeyed(r)
             THEN \E ik \in DOMAIN kv' \ DOMAIN kv :
                    /\ GeneratedKey(handles[n].id, ik)
                    /\ kv' = kvSet(kv, ik, codecMarshal(r))
             ELSE kv' = kvSet(kv, internalKey(handles[n].id, Marshal(KeyOf(r)).b),
                              codecMarshal(r))]_vars

\* The handle of n is a usable bucket of a writable database, before and
\* after a step.
Writable(n) ==
    /\ db.open /\ ~db.readOnly /\ handles[n].held /\ handles[n].err = nil
    /\ db'.open /\ handles'[n] = handles[n]

\* C17: Delete and absence, on a usable bucket of a writable database.
\* Delete(k) returns no error and removes the entry of k and nothing else
\* (nothing at all when k is absent); a second Delete(k) would change
\* nothing; Get(k) then returns ErrNotFound, and keeps returning it over
\* every step that is not a Put of k into that bucket; Get of every other
\* key returns what it returned before the Delete.
C17_Delete ==
    /\ [][\A n \in Names, k \in Keys :
            (ret'.op = "Delete" /\ Writable(n) /\ Delete(n, k))
              => /\ ret'.err = nil
                 /\ kv' = kvDelete(kv, InternalKeyOf(n, k))
                 /\ InternalKeyOf(n, k) \notin DOMAIN kv => kv' = kv
                 /\ delete(kv', handles'[n], k) = [err |-> nil, kv |-> kv']
                 /\ GetAfter(n, k).err = ErrNotFound
                 /\ \A j \in Keys \ {k} : GetAfter(n, j) = GetOf(n, j)]_vars
    /\ [][\A n \in Names, k \in Keys :
            (Writable(n) /\ GetOf(n, k).err = ErrNotFound
               /\ ~(ret'.op \in {"Put", "PutBytes"} /\ WritesKey(n, k)))
              => GetAfter(n, k).err = ErrNotFound]_vars

\* A Delete of a key the bucket does not hold has returned without error
\* and the record stored under another key is still there.
C17_Witness ==
    /\ ret.op = "Delete" /\ ret.err = nil
    /\ nWrites = 2
    /\ \E n \in Names : handles[n].held /\ BucketEntries(n) # {}

\* Where Next looks: the cursor, moved on first when the iterator has
\* yielded before; and whether an entry of the active prefix is there.
PosOf(it) ==
    IF it.advanced THEN Advance(it.snap, it.cur) ELSE [valid |-> it.valid, cur |-> it.cur]
AtEntry(it) == PosOf(it).valid /\ HasPrefix(PosOf(it).cur, it.prefix)

\* The result types a caller may pass to Next.
ResultKinds == RecordKinds \cup {NotAStruct}

\* C18: explicit release.  After Close is called on an iterator, in whatever
\* state it was, its read transaction is discarded and a Next with any
\* result type returns false.
C18_ExplicitRelease ==
    [][(iter.made /\ ret'.op = "IterClose")
         => /\ ~iter'.txnOpen
            /\ \A kind \in ResultKinds :
                  ~iterNext(iter', kind, ZeroRecord(kind)).ok]_vars

\* C19: exhaustion.  A Next that finds no entry of the active prefix at the
\* cursor returns false with Err nil, and leaves the iterator closed and its
\* transaction discarded; on a closed iterator every Next returns false and
\* changes nothing, the cursor included, and Close leaves it closed with the
\* same Err.
C19_Exhaustion ==
    /\ [][(IterRunning /\ ret'.op = "Next" /\ ~AtEntry(iter))
            => /\ ~ret'.ok
               /\ iter'.err = nil
               /\ iter'.closed /\ ~iter'.txnOpen
               /\ results' = results]_vars
    /\ [][(iter.made /\ iter.live /\ iter.closed /\ iter.err = nil)
            => /\ ret'.op = "Next"
                    => ~ret'.ok /\ iter' = iter /\ results' = results
               /\ ret'.op = "IterClose"
                    => iter'.closed /\ iter'.err = iter.err /\ ~iter'.txnOpen]_vars

\* A loop of Next has yielded records and then found the entries exhausted.
C19_Witness ==
    /\ iter.made /\ iter.live
    /\ ret.op = "Next" /\ ~ret.ok /\ ret.why = "exhausted"
    /\ results # <<>>
    /\ iter.closed /\ iter.err = nil /\ ~iter.txnOpen

\* What goes wrong in a Next at the entry under the cursor for a result of
\* the given type, nil when nothing does: the result is no pointer to a
\* struct, the value does not decode, or the key does not decode.
NextFailure(it, kind) ==
    LET ik == PosOf(it).cur
        dec == codecUnmarshal(it.snap[ik], ZeroRecord(kind))
    IN  IF kind = NotAStruct THEN ErrNotStruct
        ELSE IF dec.err # nil THEN dec.err
        ELSE setKey(ZeroRecord(kind), Strip(ik)).err

\* C20: iterator error latch.  A Next in which the result type, the value
\* decode or the key decode fails returns false and makes Err that failure;
\* once Err is set every Next returns false and changes nothing: cursor,
\* Err and the records received stay as they are.
C20_ErrorLatch ==
    /\ [][\A kind \in ResultKinds :
            (IterRunning /\ AtEntry(iter) /\ ret'.op = "Next" /\ IterNext(kind)
               /\ NextFailure(iter, kind) # nil)
              => /\ ~ret'.ok
                 /\ iter'.err = NextFailure(iter, kind)
                 /\ results' = results]_vars
    /\ [][(iter.made /\ iter.err # nil /\ ret'.op = "Next")
            => ~ret'.ok /\ iter' = iter /\ results' = results]_vars

\* An iterator that yielded a record has stopped on a decode failure at a
\* later entry.
C20_Witness ==
    /\ iter.made /\ iter.live
    /\ ret.op = "Next" /\ ~ret.ok
    /\ iter.err # nil /\ iter.advanced
    /\ results # <<>>

(***************************************************************************)
(* Locking and metadata consistency (C21, C22).                            *)
(***************************************************************************)
\* The last call was DB.Bucket (or its createBucket part in a goroutine).
BucketCall == ret.op \in {"Bucket", "BucketCreate"}

\* C21: locking discipline.  The only engine call a DB.Bucket call makes
\* while it holds db.metaMu for writing is the one write of the metadata
\* document; the next bucket id is never drawn from the sequence (which
\* renews its durable lease when used up) while the lock is held.
C21_LockingDiscipline ==
    BucketCall =>
        /\ Len(ret.io) <= 1
        /\ \A i \in DOMAIN ret.io : ret.io[i] = "writeMeta"

\* The metadata document stored in the engine is the in-memory metadata.
MetaPersisted == readMeta(kv).found /\ readMeta(kv).meta = db.meta

\* C22: on a writable open database the in-memory metadata equals the
\* persisted document after every Open and every DB.Bucket that reported no
\* error: a usable handle for a new name means the document with that name
\* was committed, and a failed Marshal, Set or Commit of the document is
\* reported as the error of the call.
C22_MetaConsistency ==
    (db.open /\ ~db.readOnly /\ ret.op \in {"Open", "Bucket"} /\ ret.err = nil)
        => MetaPersisted

(***************************************************************************)
(* Bucket ids at the end of their range (C23, C24).                        *)
(***************************************************************************)
\* The 2-byte id registered for name n in the metadata m, as a number.
IdOf(m, n) == FromBigEndian(m.Buckets[n])

Exhausted == db.open /\ db.hasSeq /\ db.next > LastCounter

\* The caller holds a usable handle of bucket m.
Usable(m) == handles[m].held /\ handles[m].err = nil

C25_OrderPreservation ==
    [][(/\ ret.op = "Marshal" /\ ret'.op = "Marshal"
        /\ ret.key.kind \in FixedKinds
        /\ ret'.key.kind = ret.key.kind
        /\ ret.key.v[1] < ret'.key.v[1])
          => /\ ret.err = nil /\ ret'.err = nil
             /\ Len(ret.b) = Len(ret'.b)
             /\ LexLess(ret.b, ret'.b)]_vars

\* The last call decoded what Marshal produces for the key k into a zero
\* variable of k's type.
DecodesKey(k) ==
    /\ ret.op = "Unmarshal"
    /\ ret.kind = k.kind
    /\ ret.old = ZeroKey(k.kind)
    /\ Marshal(k).err = nil
    /\ ret.data = Marshal(k).b

\* C26: key reconstruction.  Decoding the encoding of a key of a supported
\* type into a zero variable of that type returns no error and yields the
\* key; decoding zero-length bytes returns no error and leaves the variable
\* as it was.
C26_KeyReconstruction ==
    /\ \A k \in CodecKeys :
          (k.kind \in KeyKinds /\ DecodesKey(k)) => ret.err = nil /\ ret.v = k.v
    /\ (ret.op = "Unmarshal" /\ ret.data = <<>>) => ret.err = nil /\ ret.v = ret.old

\* C27: type acceptance.  Marshal returns no error for a value of every
\* supported key type and the invalid-key-type error for any other; so does
\* Unmarshal, given the encoding of a key of the target's type (for a type
\* that is not supported: given any bytes but none).
C27_TypeAcceptance ==
    /\ ret.op = "Marshal" =>
          ret.err = IF ret.key.kind \in KeyKinds THEN nil ELSE ErrInvalidKeyType
    /\ \A k \in CodecKeys :
          (k.kind \in KeyKinds /\ DecodesKey(k)) => ret.err = nil
    /\ (ret.op = "Unmarshal" /\ ret.kind \notin KeyKinds /\ ret.data # <<>>)
          => ret.err = ErrInvalidKeyType

(***************************************************************************)
(* The record mapper (C28).                                                *)
(***************************************************************************)
\* The indexes of the fields of t annotated `bow:"key"`, and of type Id.
Annotated(t) == {i \in 0..(Len(t) - 1) : t[i + 1].tag = "key"}
IdTyped(t) == {i \in 0..(Len(t) - 1) : t[i + 1].type = typeOfId}

\* C28: key field binding.  keyIndex returns an annotated field whenever
\* the type has one, whatever the order of the fields and whether or not
\* there are Id-typed fields; an Id-typed field only when no field is
\* annotated; -1 when there is neither; and every cached binding is the
\* one a fresh computation gives.
C28_KeyFieldBinding ==
    /\ ret.op = "keyIndex" =>
          /\ Annotated(ret.typ) # {} => ret.ki \in Annotated(ret.typ)
          /\ (Annotated(ret.typ) = {} /\ IdTyped(ret.typ) # {})
                => ret.ki \in IdTyped(ret.typ)
          /\ (Annotated(ret.typ) = {} /\ IdTyped(ret.typ) = {}) => ret.ki = -1
    /\ \A t \in DOMAIN structCache : structCache[t] = keyIndex(EmptyMap, t).ki

(***************************************************************************)
(* Get's key injection (C29) and the frame of bucket operations (C30).     *)
(***************************************************************************)
\* C29: Get(k, &out) through a usable handle, out being a zero record.
\* When nothing is stored under k, Get returns ErrNotFound and out is the
\* zero record with its key field set to k; on a hit Get returns no error,
\* out is the stored record and its key field is k.
C29_GetInjectsKey ==
    [][\A n \in Names, k \in Keys :
         (ret'.op = "Get" /\ Usable(n) /\ Get(n, k))
           => IF InternalKeyOf(n, k) \in DOMAIN kv
              THEN /\ ret'.err = nil
                   /\ codecMarshal(ret'.out) = kv[InternalKeyOf(n, k)]
                   /\ ret'.out.key = k.v
              ELSE /\ ret'.err = ErrNotFound
                   /\ ret'.out = [ZeroRecord(k.kind) EXCEPT !.key = k.v]]_vars

\* The part of the engine's key space under the reserved first byte.
ReservedPart(m) == [ik \in {x \in DOMAIN m : x[1] = reserved} |-> m[ik]]

C31_CloseOrdering ==
    [][(ret'.op = "Close" /\ db.open)
         => /\ ~engineOpen'
            /\ kv' = IF db.hasSeq THEN Release(kv, db.next, db.leased) ELSE kv]_vars

(***************************************************************************)
(* The metadata lock (C32).                                                *)
(***************************************************************************)
\* The goroutine is not inside a call of Bucket or Buckets.
Idle(g) == calls[g].pc \in {"idle", "done"}

\* The goroutine holds no part of db.metaMu: it is not the writer, not a
\* reader, and not blocked in Lock.
HoldsNothing(g) ==
    /\ metaMu.writer # g
    /\ g \notin metaMu.readers
    /\ g \notin metaMu.waiting

\* C32: no deadlock on the metadata lock.  Under fair scheduling every call
\* of Bucket and Buckets that a goroutine has entered returns; a goroutine
\* that has returned, with a bucket or with any error of the create section,
\* holds no part of the lock; and a goroutine that holds the lock as writer
\* or reader never asks for it again.
C32_NoDeadlock ==
    /\ [](\A g \in Goroutines :
            /\ Idle(g) => HoldsNothing(g)
            /\ metaMu.writer = g => g \notin metaMu.readers \cup metaMu.waiting
            /\ g \in metaMu.readers => g \notin metaMu.waiting)
    /\ \A g \in Goroutines : (~Idle(g)) ~> (calls[g].pc = "done")

\* A creation failed in the engine and its goroutine returned the error;
\* another goroutine holds the write lock now, which it was granted after.
C32_Witness ==
    \E g, h \in Goroutines :
        /\ calls[g].pc = "done"
        /\ calls[g].missed
        /\ calls[g].bucket.err \notin {nil, ErrNotFound}
        /\ calls[h].pc = "body"
        /\ metaMu.writer = h

====
